---- MODULE Spec2Model ----
(***************************************************************************)
(* A model of the Bop interpreter (crate `bop`): the value layer with its  *)
(* memory ledger (value.rs, memory.rs), the tree-walking evaluator         *)
(* (evaluator.rs) as a small-step machine with an explicit continuation    *)
(* stack, the built-ins and methods it dispatches to (builtins.rs,         *)
(* methods.rs) and the public entry point `run` (lib.rs).                  *)
(***************************************************************************)
EXTENDS Integers, Sequences, FiniteSets, TLC

\* ======================================================================
\* Bounds of the model
\* ======================================================================

\* Largest representable ledger count (usize::MAX, scaled to the model).
UsizeMax == 1000000
\* The largest max_steps the model runs a program with.
MaxStepsLarge == 150
\* The smallest max_steps the model runs a program with.
MaxStepsSmall == 2
\* The two values of max_memory (bytes) the model runs a program with.
MemSmall == 256
MemLarge == 100000
\* on_tick of the cancelling host fails at its k-th call, k in 1..MaxTickFail.
MaxTickFail == 3

\* ======================================================================
\* Program constants
\* ======================================================================

MAX_CALL_DEPTH == 64
SizeOfValue == 32
SizeOfEntry == 56
RangeMaxItems == 10000

\* ======================================================================
\* Small helpers
\* ======================================================================

\* F(e), with e computed once
Once(e, F(_)) == CHOOSE y \in {F(x) : x \in {e}} : TRUE

Min(a, b) == IF a < b THEN a ELSE b
Max(a, b) == IF a > b THEN a ELSE b

RECURSIVE SumSeq(_)
SumSeq(s) == IF s = <<>> THEN 0 ELSE Head(s) + SumSeq(Tail(s))

\* ======================================================================
\* memory.rs: the ledger (saturating arithmetic on the thread-local pair)
\* ======================================================================

\* usize::saturating_add, had it the wrapping of a plain `+`
SatAdd_wrapping(a, b) == (a + b) % (UsizeMax + 1)

SatAdd(a, b) == IF a + b > UsizeMax THEN UsizeMax ELSE a + b
SatSub(a, b) == IF a < b THEN 0 ELSE a - b
SatMul(a, b) ==
    IF a = 0 \/ b = 0 THEN 0 ELSE IF b > UsizeMax \div a THEN UsizeMax ELSE a * b

\* The plain `+` and `*` of usize, which wrap in a release build (a debug
\* build panics where these differ from the sum and the product).
WrapAdd(a, b) == (a + b) % (UsizeMax + 1)
WrapMul(a, b) == (a * b) % (UsizeMax + 1)

\* The largest size of one buffer (isize::MAX, the limit of every Vec and
\* String allocation).
IsizeMax == UsizeMax \div 2

\* imp::alloc / imp::dealloc on a counter value
bop_alloc(used, bytes) == SatAdd(used, bytes)
bop_dealloc(used, bytes) == SatSub(used, bytes)
\* imp::exceeded / imp::would_exceed
bop_memory_exceeded(used, limit) == used > limit
bop_would_exceed(used, limit, bytes) == SatAdd(used, bytes) > limit

\* ======================================================================
\* value.rs: values.  A number is modelled by an integer; a string by a
\* sequence of one-character strings together with its buffer capacity.
\* ======================================================================

\* Value::Number(f64).  The model holds the multiples of one half: n is the
\* value truncated toward zero (what `as i64` and trunc() give) and h is the
\* rest in halves (-1, 0 or 1, with the sign of the value).
NumV(n) == [t |-> "number", n |-> n, h |-> 0]
Halves(v) == 2 * v.n + v.h
FromHalves(x) ==
    LET q == (IF x < 0 THEN 0 - x ELSE x) \div 2
        n == IF x < 0 THEN 0 - q ELSE q
    IN [t |-> "number", n |-> n, h |-> x - 2 * n]
BoolV(b) == [t |-> "bool", b |-> b]
NoneV == [t |-> "none"]
StrV(s, cap) == [t |-> "string", s |-> s, cap |-> cap]
ArrV(items, cap) == [t |-> "array", items |-> items, cap |-> cap]
DictV(entries, cap) == [t |-> "dict", entries |-> entries, cap |-> cap]
DEntry(k, kcap, v) == [k |-> k, kcap |-> kcap, v |-> v]

\* Value::type_name
type_name(v) == v.t

\* Value::is_truthy
is_truthy(v) ==
    CASE v.t = "bool" -> v.b
      [] v.t = "none" -> FALSE
      [] v.t = "number" -> Halves(v) # 0
      [] v.t = "string" -> v.s # <<>>
      [] v.t = "array" -> v.items # <<>>
      [] v.t = "dict" -> v.entries # <<>>

RECURSIVE SumKeyCaps(_)
SumKeyCaps(entries) ==
    IF entries = <<>> THEN 0 ELSE WrapAdd(Head(entries).kcap, SumKeyCaps(Tail(entries)))

\* The bytes a Value accounts for its own buffer (what its constructor adds
\* and what its Drop impl deducts), not counting nested elements.
OwnBytes(v) ==
    CASE v.t = "string" -> v.cap
      [] v.t = "array" -> WrapMul(v.cap, SizeOfValue)
      [] v.t = "dict" -> WrapAdd(WrapMul(v.cap, SizeOfEntry), SumKeyCaps(v.entries))
      [] OTHER -> 0

\* Dropping a value runs Drop for the value and then for every element it
\* owns: the total deducted from the ledger.
RECURSIVE DropBytes(_)
RECURSIVE DropBytesRange(_, _, _)
RECURSIVE DropBytesSeq(_)
DropBytes(v) ==
    CASE v.t = "array" -> OwnBytes(v) + DropBytesSeq(v.items)
      [] v.t = "dict" ->
            OwnBytes(v) + DropBytesSeq([i \in 1..Len(v.entries) |-> v.entries[i].v])
      [] OTHER -> OwnBytes(v)
\* the sum over vs[lo..hi], by halves
DropBytesRange(vs, lo, hi) ==
    IF lo > hi THEN 0
    ELSE IF lo = hi THEN DropBytes(vs[lo])
    ELSE DropBytesRange(vs, lo, (lo + hi) \div 2)
            + DropBytesRange(vs, (lo + hi) \div 2 + 1, hi)
DropBytesSeq(vs) == DropBytesRange(vs, 1, Len(vs))

\* Value::new_str / new_array / new_dict: the value; the caller adds
\* OwnBytes of the result to the ledger (see Alloc below).
new_str(s, cap) == StrV(s, cap)
new_array(items, cap) == ArrV(items, cap)
new_dict(entries, cap) == DictV(entries, cap)

\* impl Clone for Value, had the copy the capacities of the original
CloneValue_same_capacity(v) == v

\* impl Clone for Value: a deep copy whose buffers have capacity = length.
RECURSIVE CloneValue(_)
CloneValue(v) ==
    CASE v.t = "string" -> StrV(v.s, Len(v.s))
      [] v.t = "array" ->
            ArrV([i \in 1..Len(v.items) |-> CloneValue(v.items[i])], Len(v.items))
      [] v.t = "dict" ->
            DictV([i \in 1..Len(v.entries) |->
                      DEntry(v.entries[i].k, Len(v.entries[i].k),
                             CloneValue(v.entries[i].v))],
                  Len(v.entries))
      [] OTHER -> v

\* The bytes a clone adds to the ledger: every nested Clone tracks itself.
CloneBytes(v) == DropBytes(CloneValue(v))

\* Capacity of a Vec built by Vec::new() followed by n pushes.
RECURSIVE PushedCapFrom(_, _)
PushedCapFrom(cap, n) == IF n <= cap THEN cap ELSE PushedCapFrom(2 * cap, n)
PushedCap(n) == IF n = 0 THEN 0 ELSE PushedCapFrom(4, n)

\* Amortized growth of a Vec or String buffer: reserve for `needed` elements
\* with current capacity cap and minimal non-zero capacity minCap.
GrowCap(cap, needed, minCap) ==
    IF needed <= cap THEN cap ELSE Max(Max(2 * cap, needed), minCap)

\* Capacity of the String produced by format! from pieces of the given lengths.
RECURSIVE FormatCapFrom(_, _, _)
FormatCapFrom(cap, len, pieces) ==
    IF pieces = <<>> THEN cap
    ELSE FormatCapFrom(GrowCap(cap, len + Head(pieces), 8), len + Head(pieces),
                       Tail(pieces))
FormatCap(pieces) == FormatCapFrom(0, 0, pieces)

\* ----------------------------------------------------------------------
\* Display and inspect forms (impl Display for Value, Value::inspect)
\* ----------------------------------------------------------------------

Digit(d) == <<"0", "1", "2", "3", "4", "5", "6", "7", "8", "9">>[d + 1]

RECURSIVE NatToStr(_)
NatToStr(n) == IF n < 10 THEN <<Digit(n)>> ELSE NatToStr(n \div 10) \o <<Digit(n % 10)>>

IntToStr(n) == IF n < 0 THEN <<"-">> \o NatToStr(0 - n) ELSE NatToStr(n)

RECURSIVE Display(_)
RECURSIVE Inspect(_)
RECURSIVE DisplayItems(_, _)
RECURSIVE DisplayEntries(_, _)
Display(v) ==
    CASE v.t = "number" ->
            (IF Halves(v) < 0 THEN <<"-">> ELSE <<>>)
            \o NatToStr(IF v.n < 0 THEN 0 - v.n ELSE v.n)
            \o (IF v.h # 0 THEN <<".", "5">> ELSE <<>>)
      [] v.t = "string" -> v.s
      [] v.t = "bool" -> IF v.b THEN <<"t", "r", "u", "e">> ELSE <<"f", "a", "l", "s", "e">>
      [] v.t = "none" -> <<"n", "o", "n", "e">>
      [] v.t = "array" -> <<"[">> \o DisplayItems(v.items, 1) \o <<"]">>
      [] v.t = "dict" -> <<"{">> \o DisplayEntries(v.entries, 1) \o <<"}">>
Inspect(v) ==
    IF v.t = "string" THEN <<"\"">> \o v.s \o <<"\"">> ELSE Display(v)
DisplayItems(items, i) ==
    IF i > Len(items) THEN <<>>
    ELSE (IF i > 1 THEN <<",", " ">> ELSE <<>>) \o Inspect(items[i])
         \o DisplayItems(items, i + 1)
DisplayEntries(entries, i) ==
    IF i > Len(entries) THEN <<>>
    ELSE (IF i > 1 THEN <<",", " ">> ELSE <<>>)
         \o <<"\"">> \o entries[i].k \o <<"\"", ":", " ">> \o Inspect(entries[i].v)
         \o DisplayEntries(entries, i + 1)

\* ----------------------------------------------------------------------
\* values_equal
\* ----------------------------------------------------------------------

RECURSIVE values_equal(_, _)
values_equal(a, b) ==
    CASE a.t = "number" /\ b.t = "number" -> Halves(a) = Halves(b)
      [] a.t = "string" /\ b.t = "string" -> a.s = b.s
      [] a.t = "bool" /\ b.t = "bool" -> a.b = b.b
      [] a.t = "none" /\ b.t = "none" -> TRUE
      [] a.t = "array" /\ b.t = "array" ->
            /\ Len(a.items) = Len(b.items)
            /\ \A i \in 1..Len(a.items) : values_equal(a.items[i], b.items[i])
      [] a.t = "dict" /\ b.t = "dict" ->
            /\ Len(a.entries) = Len(b.entries)
            /\ \A i \in 1..Len(a.entries) :
                  \E j \in 1..Len(b.entries) :
                     /\ b.entries[j].k = a.entries[i].k
                     /\ \A j2 \in 1..(j - 1) : b.entries[j2].k # a.entries[i].k
                     /\ values_equal(a.entries[i].v, b.entries[j].v)
      [] OTHER -> FALSE


\* ======================================================================
\* error.rs / builtins.rs: errors.  hint = "" stands for friendly_hint None.
\* ======================================================================

BopError(msg, hint) == [msg |-> msg, hint |-> hint]
error(msg) == BopError(msg, "")
error_with_hint(msg, hint) == BopError(msg, hint)
NoError == BopError("", "")

StepLimitMsg == "Your code took too many steps (possible infinite loop)"
MemoryLimitMsg == "Memory limit exceeded"
DepthLimitMsg == "Too many nested function calls (possible infinite recursion)"
BreakOutsideMsg == "break used outside of a loop"
ContinueOutsideMsg == "continue used outside of a loop"

\* The outcome of an operation of the value layer: Ok(v) or Err(e).  For the
\* operations with unbounded output, unb names the operation, bytes is the
\* size of the result it is about to produce and checked tells whether
\* bop_would_exceed was consulted.
OpOk(v) == [ok |-> TRUE, v |-> v, e |-> NoError,
            unb |-> "none", bytes |-> 0, checked |-> FALSE]
OpErr(e) == [ok |-> FALSE, v |-> NoneV, e |-> e,
             unb |-> "none", bytes |-> 0, checked |-> FALSE]
Unbounded(r, name, bytes, checked) ==
    [r EXCEPT !.unb = name, !.bytes = bytes, !.checked = checked]

\* check_string_repeat_memory
check_string_repeat_memory(used, limit, len, count) ==
    IF bop_would_exceed(used, limit, SatMul(len, count))
    THEN OpErr(error_with_hint(MemoryLimitMsg, "This string repeat would use too much memory."))
    ELSE OpOk(NoneV)

\* check_string_concat_memory
check_string_concat_memory(used, limit, a_len, b_len) ==
    IF bop_would_exceed(used, limit, WrapAdd(a_len, b_len))
    THEN OpErr(error_with_hint(MemoryLimitMsg, "This string concatenation would use too much memory."))
    ELSE OpOk(NoneV)

\* check_array_concat_memory
check_array_concat_memory(used, limit, a_len, b_len) ==
    IF bop_would_exceed(used, limit, WrapMul(WrapAdd(a_len, b_len), SizeOfValue))
    THEN OpErr(error_with_hint(MemoryLimitMsg, "This array concatenation would use too much memory."))
    ELSE OpOk(NoneV)

\* str::repeat
RepeatSeq(s, n) == [i \in 1..(Len(s) * n) |-> s[((i - 1) % Len(s)) + 1]]

\* Order of characters (the model's alphabet is a subset of ASCII).
CharRank(c) ==
    CASE c = " " -> 32 [] c = "!" -> 33 [] c = "," -> 44 [] c = "-" -> 45
      [] c = "0" -> 48 [] c = "1" -> 49 [] c = "2" -> 50 [] c = "3" -> 51
      [] c = "a" -> 97 [] c = "b" -> 98 [] c = "c" -> 99 [] c = "x" -> 120
      [] OTHER -> 127

RECURSIVE StrLess(_, _)
StrLess(a, b) ==
    IF b = <<>> THEN FALSE
    ELSE IF a = <<>> THEN TRUE
    ELSE IF CharRank(Head(a)) # CharRank(Head(b)) THEN CharRank(Head(a)) < CharRank(Head(b))
    ELSE StrLess(Tail(a), Tail(b))

\* String + String and the coercing forms of `+`
StringConcat_unchecked(used, limit, a, b) ==
    Unbounded(OpOk(new_str(a \o b, FormatCap(<<Len(a), Len(b)>>))),
              "string concat", Len(a) + Len(b), TRUE)
StringConcat(used, limit, a, b) ==
    LET chk == check_string_concat_memory(used, limit, Len(a), Len(b))
        r == IF chk.ok
             THEN OpOk(new_str(a \o b, FormatCap(<<Len(a), Len(b)>>)))
             ELSE chk
    IN Unbounded(r, "string concat", Len(a) + Len(b), TRUE)

\* Array + Array
ArrayConcat(used, limit, a, b) ==
    LET chk == check_array_concat_memory(used, limit, Len(a.items), Len(b.items))
        items == [i \in 1..(Len(a.items) + Len(b.items)) |->
                    IF i <= Len(a.items) THEN CloneValue(a.items[i])
                    ELSE CloneValue(b.items[i - Len(a.items)])]
        r == IF chk.ok
             THEN OpOk(new_array(items,
                        GrowCap(Len(a.items), Len(a.items) + Len(b.items), 4)))
             ELSE chk
    IN Unbounded(r, "array concat", (Len(a.items) + Len(b.items)) * SizeOfValue, TRUE)

\* String * Number
StringRepeat(used, limit, s, nf) ==
    IF Halves(nf) < 0 THEN OpErr(error("Cannot repeat a string {} times"))
    ELSE LET n == nf.n
             chk == check_string_repeat_memory(used, limit, Len(s), n)
             r == IF chk.ok THEN OpOk(new_str(RepeatSeq(s, n), Len(s) * n)) ELSE chk
         IN Unbounded(r, "string repeat", Min(Len(s) * n, UsizeMax), TRUE)

\* f64 remainder: the sign follows the dividend
Fmod(a, b) ==
    LET ab == IF b < 0 THEN 0 - b ELSE b
    IN IF a < 0 THEN 0 - ((0 - a) % ab) ELSE a % ab

\* f64 division of whole numbers, toward zero; binary_op applies it to halves,
\* where the model is exact when the quotient is a multiple of one half
Fdiv(a, b) ==
    LET q == (IF a < 0 THEN 0 - a ELSE a) \div (IF b < 0 THEN 0 - b ELSE b)
    IN IF (a < 0) = (b < 0) THEN q ELSE 0 - q

\* Evaluator::compare_op
compare_op(left, op, right) ==
    CASE left.t = "number" /\ right.t = "number" ->
            OpOk(BoolV(CASE op = "Lt" -> Halves(left) < Halves(right)
                         [] op = "Gt" -> Halves(left) > Halves(right)
                         [] op = "LtEq" -> Halves(left) <= Halves(right)
                         [] OTHER -> Halves(left) >= Halves(right)))
      [] left.t = "string" /\ right.t = "string" ->
            OpOk(BoolV(CASE op = "Lt" -> StrLess(left.s, right.s)
                         [] op = "Gt" -> StrLess(right.s, left.s)
                         [] op = "LtEq" -> ~StrLess(right.s, left.s)
                         [] OTHER -> ~StrLess(left.s, right.s)))
      [] OTHER -> OpErr(error("Cannot compare {} and {} with {}"))

\* Evaluator::numeric_op (used for `-`)
numeric_op(left, right) ==
    IF left.t = "number" /\ right.t = "number"
    THEN OpOk(FromHalves(Halves(left) - Halves(right)))
    ELSE OpErr(error("Cannot use - with {} and {}"))

\* Evaluator::binary_op.  used and limit are the ledger at the time of the
\* call (both operands are alive).
binary_op(used, limit, left, op, right) ==
    CASE op = "Add" ->
            (CASE left.t = "number" /\ right.t = "number" -> OpOk(FromHalves(Halves(left) + Halves(right)))
               [] left.t = "string" /\ right.t = "string" ->
                     StringConcat(used, limit, left.s, right.s)
               [] left.t = "string" /\ right.t # "string" ->
                     StringConcat(used, limit, left.s, Display(right))
               [] left.t # "string" /\ right.t = "string" ->
                     StringConcat(used, limit, Display(left), right.s)
               [] left.t = "array" /\ right.t = "array" ->
                     ArrayConcat(used, limit, left, right)
               [] OTHER -> OpErr(error("Cannot add {} and {}")))
      [] op = "Sub" -> numeric_op(left, right)
      [] op = "Mul" ->
            (CASE left.t = "number" /\ right.t = "number" ->
                     OpOk(FromHalves(Fdiv(Halves(left) * Halves(right), 2)))
               [] left.t = "string" /\ right.t = "number" ->
                     StringRepeat(used, limit, left.s, right)
               [] left.t = "number" /\ right.t = "string" ->
                     StringRepeat(used, limit, right.s, left)
               [] OTHER -> OpErr(error("Cannot multiply {} and {}")))
      [] op = "Div" ->
            (CASE left.t = "number" /\ right.t = "number" ->
                     IF Halves(right) = 0
                     THEN OpErr(error_with_hint("Division by zero", "You cannot divide by 0."))
                     ELSE OpOk(FromHalves(Fdiv(2 * Halves(left), Halves(right))))
               [] OTHER -> OpErr(error("Cannot divide {} by {}")))
      [] op = "Mod" ->
            (CASE left.t = "number" /\ right.t = "number" ->
                     IF Halves(right) = 0
                     THEN OpErr(error_with_hint("Modulo by zero", "You cannot use % with 0."))
                     ELSE OpOk(FromHalves(Fmod(Halves(left), Halves(right))))
               [] OTHER -> OpErr(error("Cannot use % with {} and {}")))
      [] op = "Eq" -> OpOk(BoolV(values_equal(left, right)))
      [] op = "NotEq" -> OpOk(BoolV(~values_equal(left, right)))
      [] OTHER -> compare_op(left, op, right)

\* Evaluator::apply_compound_op
apply_compound_op(used, limit, left, op, right) ==
    CASE op = "Eq" -> OpOk(CloneValue(right))
      [] op = "AddEq" -> binary_op(used, limit, left, "Add", right)
      [] op = "SubEq" -> binary_op(used, limit, left, "Sub", right)
      [] op = "MulEq" -> binary_op(used, limit, left, "Mul", right)
      [] op = "DivEq" -> binary_op(used, limit, left, "Div", right)
      [] op = "ModEq" -> binary_op(used, limit, left, "Mod", right)

\* Position of key in the entries of a dict (0 = absent)
RECURSIVE KeyIndexFrom(_, _, _)
KeyIndexFrom(entries, key, i) ==
    IF i > Len(entries) THEN 0
    ELSE IF entries[i].k = key THEN i ELSE KeyIndexFrom(entries, key, i + 1)
KeyIndex(entries, key) == KeyIndexFrom(entries, key, 1)

\* `n as i64` of a number: the integer part, brought into the range of i64
\* (the model scales i64::MAX to IsizeMax)
as_i64(v) ==
    IF v.n > IsizeMax THEN IsizeMax
    ELSE IF v.n < 0 - IsizeMax - 1 THEN 0 - IsizeMax - 1 ELSE v.n

\* `x as usize` of an i64, had usize eight values only
i64_as_usize_narrow(x) == x % 8

\* `x as usize` of an i64: the value modulo the size of usize
i64_as_usize(x) == x % (UsizeMax + 1)

\* `n as usize` of a number: the integer part, brought into the range of usize
f64_as_usize(v) == IF v.n > UsizeMax THEN UsizeMax ELSE IF v.n < 0 THEN 0 ELSE v.n

\* the slot an index stands for: `if i < 0 { (len as i64 + i) as usize }
\* else { i as usize }`
ActualIndex(len, i) == IF i < 0 THEN i64_as_usize(len + i) ELSE i64_as_usize(i)

\* Evaluator::index_into: the element is cloned
index_into(obj, idx) ==
    CASE obj.t = "array" /\ idx.t = "number" ->
            LET actual == ActualIndex(Len(obj.items), as_i64(idx))
            IN IF actual < Len(obj.items)
               THEN OpOk(CloneValue(obj.items[actual + 1]))
               ELSE OpErr(error("Index {} is out of bounds (array has {} items)"))
      [] obj.t = "string" /\ idx.t = "number" ->
            LET actual == ActualIndex(Len(obj.s), as_i64(idx))
            IN IF actual < Len(obj.s)
               THEN OpOk(new_str(<<obj.s[actual + 1]>>, 1))
               ELSE OpErr(error("Index {} is out of bounds (string has {} characters)"))
      [] obj.t = "dict" /\ idx.t = "string" ->
            LET j == KeyIndex(obj.entries, idx.s)
            IN IF j > 0 THEN OpOk(CloneValue(obj.entries[j].v))
               ELSE OpErr(error("Key {} not found in dict"))
      [] OTHER -> OpErr(error("Cannot index {} with {}"))

\* BopDict::set_key: the dict after the call and the bytes it adds
set_key(d, key, val) ==
    LET j == KeyIndex(d.entries, key)
        new_cap == GrowCap(d.cap, Len(d.entries) + 1, 4)
    IN IF j > 0
       THEN [obj |-> [d EXCEPT !.entries[j].v = val],
             alloc |-> 0, dealloc |-> DropBytes(d.entries[j].v)]
       ELSE [obj |-> DictV(Append(d.entries, DEntry(key, Len(key), val)), new_cap),
             alloc |-> Len(key) + (new_cap - d.cap) * SizeOfEntry, dealloc |-> 0]

\* Evaluator::set_index together with BopArray::set: the object after the
\* call, the bytes added and deducted, or the error (val is then dropped).
set_index(obj, idx, val) ==
    CASE obj.t = "array" /\ idx.t = "number" ->
            LET len == Len(obj.items)
                actual == ActualIndex(len, as_i64(idx))
            IN IF actual >= len
               THEN [ok |-> FALSE, obj |-> obj, alloc |-> 0, dealloc |-> DropBytes(val),
                     e |-> error("Index {} is out of bounds (array has {} items)")]
               ELSE [ok |-> TRUE, obj |-> [obj EXCEPT !.items[actual + 1] = val],
                     alloc |-> 0, dealloc |-> DropBytes(obj.items[actual + 1]),
                     e |-> NoError]
      [] obj.t = "dict" /\ idx.t = "string" ->
            LET r == set_key(obj, idx.s, val)
            IN [ok |-> TRUE, obj |-> r.obj, alloc |-> r.alloc, dealloc |-> r.dealloc,
                e |-> NoError]
      [] OTHER -> [ok |-> FALSE, obj |-> obj, alloc |-> 0, dealloc |-> DropBytes(val),
                   e |-> error("Cannot set index with these types")]


\* ======================================================================
\* builtins.rs
\* ======================================================================

BuiltinNames == {"range", "str", "int", "type", "abs", "min", "max", "rand",
                 "len", "inspect", "print"}

expect_number_err(name) == error("{} expects a number, but got {}")
expect_args_err(name) == error("{} expects {} argument{}, but got {}")

AllNumbers(args) == \A i \in 1..Len(args) : args[i].t = "number"

\* The number of elements builtin_range pushes for (start, end, step)
RangeCount_inclusive(start, end, step) ==
    LET span == IF step > 0 THEN end - start ELSE start - end
        st == IF step > 0 THEN step ELSE 0 - step
        n == IF span < 0 THEN 0 ELSE (span + st) \div st
    IN Min(n, RangeMaxItems)
RangeCount(start, end, step) ==
    LET span == IF step > 0 THEN end - start ELSE start - end
        st == IF step > 0 THEN step ELSE 0 - step
        n == IF span <= 0 THEN 0 ELSE (span + st - 1) \div st
    IN Min(n, RangeMaxItems)

\* builtin_range: no pre-flight check; at most max_items elements
builtin_range_strict(args) ==
    IF Len(args) \notin {1, 2, 3} THEN OpErr(error("range takes 1, 2, or 3 arguments"))
    ELSE IF ~AllNumbers(args) THEN OpErr(expect_number_err("range"))
    ELSE IF Len(args) = 3 /\ Halves(args[3]) = 0
         THEN OpErr(error("range step cannot be 0"))
    ELSE LET start == IF Len(args) = 1 THEN 0 ELSE Halves(args[1])
             end == IF Len(args) = 1 THEN Halves(args[1]) ELSE Halves(args[2])
             step == IF Len(args) = 3 THEN Halves(args[3])
                     ELSE IF Len(args) = 1 \/ start <= end THEN 2 ELSE -2
             n == RangeCount(start, end, step)
             result == [i \in 1..n |-> FromHalves(start + (i - 1) * step)]
         IN IF n = RangeMaxItems
               /\ (IF step > 0 THEN start + n * step < end ELSE start + n * step > end)
            THEN OpErr(error("range cap exceeded"))
            ELSE Unbounded(OpOk(new_array(result, PushedCap(n))),
                           "range", PushedCap(n) * SizeOfValue, FALSE)
builtin_range(args) ==
    IF Len(args) \notin {1, 2, 3} THEN OpErr(error("range takes 1, 2, or 3 arguments"))
    ELSE IF ~AllNumbers(args) THEN OpErr(expect_number_err("range"))
    ELSE IF Len(args) = 3 /\ Halves(args[3]) = 0
         THEN OpErr(error("range step cannot be 0"))
    ELSE LET start == IF Len(args) = 1 THEN 0 ELSE Halves(args[1])
             end == IF Len(args) = 1 THEN Halves(args[1]) ELSE Halves(args[2])
             step == IF Len(args) = 3 THEN Halves(args[3])
                     ELSE IF Len(args) = 1 \/ start <= end THEN 2 ELSE -2
             n == RangeCount(start, end, step)
             result == [i \in 1..n |-> FromHalves(start + (i - 1) * step)]
         IN Unbounded(OpOk(new_array(result, PushedCap(n))),
                      "range", PushedCap(n) * SizeOfValue, FALSE)

\* builtin_str
builtin_str(args) ==
    IF Len(args) # 1 THEN OpErr(expect_args_err("str"))
    ELSE LET d == Display(args[1])
         IN OpOk(new_str(d, FormatCap(<<Len(d)>>)))

\* builtin_int (strings that spell a whole number are parsed by the model)
RECURSIVE DigitsValue(_, _)
DigitsValue(s, acc) ==
    IF s = <<>> THEN acc
    ELSE LET d == CHOOSE k \in -1..9 :
                     IF \E j \in 0..9 : Digit(j) = Head(s) THEN k >= 0 /\ Digit(k) = Head(s)
                     ELSE k = -1
         IN IF d < 0 \/ acc < 0 THEN -1 ELSE DigitsValue(Tail(s), acc * 10 + d)
builtin_int(args) ==
    IF Len(args) # 1 THEN OpErr(expect_args_err("int"))
    ELSE CASE args[1].t = "number" -> OpOk(NumV(args[1].n))
           [] args[1].t = "string" ->
                 IF args[1].s # <<>> /\ DigitsValue(args[1].s, 0) >= 0
                 THEN OpOk(NumV(DigitsValue(args[1].s, 0)))
                 ELSE OpErr(error("Cannot convert {} to a number"))
           [] args[1].t = "bool" -> OpOk(NumV(IF args[1].b THEN 1 ELSE 0))
           [] OTHER -> OpErr(error("Cannot convert {} to int"))

TypeNameStr(t) ==
    CASE t = "number" -> <<"n", "u", "m", "b", "e", "r">>
      [] t = "string" -> <<"s", "t", "r", "i", "n", "g">>
      [] t = "bool" -> <<"b", "o", "o", "l">>
      [] t = "none" -> <<"n", "o", "n", "e">>
      [] t = "array" -> <<"a", "r", "r", "a", "y">>
      [] OTHER -> <<"d", "i", "c", "t">>

\* builtin_type
builtin_type(args) ==
    IF Len(args) # 1 THEN OpErr(expect_args_err("type"))
    ELSE OpOk(new_str(TypeNameStr(args[1].t), Len(TypeNameStr(args[1].t))))

\* builtin_abs
builtin_abs(args) ==
    IF Len(args) # 1 THEN OpErr(expect_args_err("abs"))
    ELSE IF args[1].t # "number" THEN OpErr(expect_number_err("abs"))
    ELSE OpOk(FromHalves(IF Halves(args[1]) < 0 THEN 0 - Halves(args[1])
                         ELSE Halves(args[1])))

\* builtin_min / builtin_max
builtin_min(args) ==
    IF Len(args) # 2 THEN OpErr(expect_args_err("min"))
    ELSE IF ~AllNumbers(args) THEN OpErr(expect_number_err("min"))
    ELSE OpOk(FromHalves(Min(Halves(args[1]), Halves(args[2]))))
builtin_max(args) ==
    IF Len(args) # 2 THEN OpErr(expect_args_err("max"))
    ELSE IF ~AllNumbers(args) THEN OpErr(expect_number_err("max"))
    ELSE OpOk(FromHalves(Max(Halves(args[1]), Halves(args[2]))))

\* builtin_len
builtin_len(args) ==
    IF Len(args) # 1 THEN OpErr(expect_args_err("len"))
    ELSE CASE args[1].t = "string" -> OpOk(NumV(Len(args[1].s)))
           [] args[1].t = "array" -> OpOk(NumV(Len(args[1].items)))
           [] args[1].t = "dict" -> OpOk(NumV(Len(args[1].entries)))
           [] OTHER -> OpErr(error("Cannot get length of {}"))

\* builtin_inspect
builtin_inspect(args) ==
    IF Len(args) # 1 THEN OpErr(expect_args_err("inspect"))
    ELSE LET d == Inspect(args[1]) IN OpOk(new_str(d, Len(d)))

\* The message print hands to host.on_print: display forms joined by " "
RECURSIVE message(_, _)
message(args, i) ==
    IF i > Len(args) THEN <<>>
    ELSE (IF i > 1 THEN <<" ">> ELSE <<>>) \o Display(args[i]) \o message(args, i + 1)

\* ======================================================================
\* methods.rs
\* ======================================================================

\* The outcome of a method: Ok((ret, mutated)) or Err(e)
MethOk(ret, some, mutated) ==
    [ok |-> TRUE, v |-> ret, some |-> some, mutated |-> mutated, e |-> NoError,
     unb |-> "none", bytes |-> 0, checked |-> FALSE]
MethErr(e) ==
    [ok |-> FALSE, v |-> NoneV, some |-> FALSE, mutated |-> NoneV, e |-> e,
     unb |-> "none", bytes |-> 0, checked |-> FALSE]

\* is_mutating_method
is_mutating_method_short(method) ==
    method \in {"push", "pop", "insert", "remove", "reverse"}
is_mutating_method(method) ==
    method \in {"push", "pop", "insert", "remove", "reverse", "sort"}

\* arr.to_vec(): every element cloned
ToVec(items) == [i \in 1..Len(items) |-> CloneValue(items[i])]

RECURSIVE JoinFrom(_, _, _)
JoinFrom(items, sep, i) ==
    IF i > Len(items) THEN <<>>
    ELSE (IF i > 1 THEN sep ELSE <<>>) \o Display(items[i]) \o JoinFrom(items, sep, i + 1)

\* the comparison of "sort": numbers by value, strings by their bytes, any
\* other pair counts as equal
SortLess(a, b) ==
    CASE a.t = "number" /\ b.t = "number" -> Halves(a) < Halves(b)
      [] a.t = "string" /\ b.t = "string" -> StrLess(a.s, b.s)
      [] OTHER -> FALSE

\* x placed behind the elements of the sorted sequence that are not greater
RECURSIVE InsertSorted(_, _)
InsertSorted(sorted, x) ==
    IF sorted = <<>> THEN <<x>>
    ELSE IF SortLess(x, Head(sorted)) THEN <<x>> \o sorted
    ELSE <<Head(sorted)>> \o InsertSorted(Tail(sorted), x)

\* sort_by (stable) on the first k elements.  The order it yields is the
\* one the library guarantees when the comparison is a total order, that
\* is for arrays of numbers only or of strings only.
RECURSIVE SortUpTo(_, _)
SortUpTo(items, k) ==
    IF k = 0 THEN <<>> ELSE InsertSorted(SortUpTo(items, k - 1), items[k])

\* array_method
array_method(arr, method, args) ==
    CASE method = "len" -> MethOk(NumV(Len(arr)), FALSE, NoneV)
      [] method = "push" ->
            IF Len(args) # 1 THEN MethErr(error(".push() needs exactly 1 argument"))
            ELSE MethOk(NoneV, TRUE,
                        new_array(Append(ToVec(arr), CloneValue(args[1])),
                                  GrowCap(Len(arr), Len(arr) + 1, 4)))
      [] method = "pop" ->
            IF arr = <<>> THEN MethOk(NoneV, TRUE, new_array(<<>>, 0))
            ELSE MethOk(CloneValue(arr[Len(arr)]), TRUE,
                        new_array(ToVec(SubSeq(arr, 1, Len(arr) - 1)), Len(arr)))
      [] method = "has" ->
            IF Len(args) # 1 THEN MethErr(error(".has() needs exactly 1 argument"))
            ELSE MethOk(BoolV(\E i \in 1..Len(arr) : values_equal(arr[i], args[1])),
                        FALSE, NoneV)
      [] method = "insert" ->
            IF Len(args) # 2
            THEN MethErr(error(".insert() needs 2 arguments: index and value"))
            ELSE IF args[1].t # "number" THEN MethErr(expect_number_err("insert"))
            ELSE IF f64_as_usize(args[1]) > Len(arr)
            THEN MethErr(error("Insert index {} is out of bounds"))
            ELSE MethOk(NoneV, TRUE,
                        new_array(ToVec(SubSeq(arr, 1, f64_as_usize(args[1])))
                                     \o <<CloneValue(args[2])>>
                                     \o ToVec(SubSeq(arr, f64_as_usize(args[1]) + 1, Len(arr))),
                                  GrowCap(Len(arr), Len(arr) + 1, 4)))
      [] method = "remove" ->
            IF Len(args) # 1
            THEN MethErr(error(".remove() needs exactly 1 argument (index)"))
            ELSE IF args[1].t # "number" THEN MethErr(expect_number_err("remove"))
            ELSE IF f64_as_usize(args[1]) >= Len(arr)
            THEN MethErr(error("Remove index {} is out of bounds"))
            ELSE MethOk(CloneValue(arr[f64_as_usize(args[1]) + 1]), TRUE,
                        new_array(ToVec(SubSeq(arr, 1, f64_as_usize(args[1])))
                                     \o ToVec(SubSeq(arr, f64_as_usize(args[1]) + 2, Len(arr))),
                                  Len(arr)))
      [] method = "sort" ->
            MethOk(NoneV, TRUE, new_array(SortUpTo(ToVec(arr), Len(arr)), Len(arr)))
      [] method = "reverse" ->
            MethOk(NoneV, TRUE,
                   new_array([i \in 1..Len(arr) |-> CloneValue(arr[Len(arr) + 1 - i])],
                             Len(arr)))
      [] method = "join" ->
            IF Len(args) # 1 THEN MethErr(error(".join() needs exactly 1 argument (separator)"))
            ELSE IF args[1].t # "string" THEN MethErr(error(".join() separator must be a string"))
            ELSE LET result == JoinFrom(arr, args[1].s, 1)
                 IN Unbounded(MethOk(new_str(result, Len(result)), FALSE, NoneV),
                              "array join", Len(result), FALSE)
      [] OTHER -> MethErr(error("Array does not have a .{}() method"))

IsPrefix(p, s) == Len(p) <= Len(s) /\ SubSeq(s, 1, Len(p)) = p

\* str::split for a non-empty separator: the pieces between occurrences
RECURSIVE SplitFrom(_, _, _)
SplitFrom(s, sep, cur) ==
    IF s = <<>> THEN <<cur>>
    ELSE IF IsPrefix(sep, s)
         THEN <<cur>> \o SplitFrom(SubSeq(s, Len(sep) + 1, Len(s)), sep, <<>>)
         ELSE SplitFrom(Tail(s), sep, Append(cur, Head(s)))

\* string_method
string_method(s, method, args) ==
    CASE method = "len" -> MethOk(NumV(Len(s)), FALSE, NoneV)
      [] method = "contains" ->
            IF Len(args) # 1 THEN MethErr(error(".contains() needs 1 argument"))
            ELSE IF args[1].t # "string" THEN MethErr(error(".contains() needs a string argument"))
            ELSE MethOk(BoolV(\E i \in 0..Len(s) :
                                 IsPrefix(args[1].s, SubSeq(s, i + 1, Len(s)))),
                        FALSE, NoneV)
      [] method = "split" ->
            IF Len(args) # 1 THEN MethErr(error(".split() needs 1 argument"))
            ELSE IF args[1].t # "string" THEN MethErr(error(".split() needs a string"))
            ELSE Once(IF args[1].s = <<>>
                      THEN <<<<>>>> \o [i \in 1..Len(s) |-> <<s[i]>>] \o <<<<>>>>
                      ELSE SplitFrom(s, args[1].s, <<>>), LAMBDA pieces :
                 LET parts == [i \in 1..Len(pieces) |-> new_str(pieces[i], Len(pieces[i]))]
                     result == new_array(parts, PushedCap(Len(parts)))
                 IN Unbounded(MethOk(result, FALSE, NoneV),
                              "string split", DropBytes(result), FALSE))
      [] method = "trim" -> MethOk(new_str(s, Len(s)), FALSE, NoneV)
      [] OTHER -> MethErr(error("String does not have a .{}() method"))

\* dict_method
dict_method(entries, method, args) ==
    CASE method = "len" -> MethOk(NumV(Len(entries)), FALSE, NoneV)
      [] method = "keys" ->
            MethOk(new_array([i \in 1..Len(entries) |->
                                new_str(entries[i].k, Len(entries[i].k))],
                             Len(entries)), FALSE, NoneV)
      [] method = "values" ->
            MethOk(new_array([i \in 1..Len(entries) |-> CloneValue(entries[i].v)],
                             Len(entries)), FALSE, NoneV)
      [] method = "has" ->
            IF Len(args) # 1 THEN MethErr(error(".has() needs 1 argument"))
            ELSE IF args[1].t # "string" THEN MethErr(error(".has() needs a string key"))
            ELSE MethOk(BoolV(KeyIndex(entries, args[1].s) > 0), FALSE, NoneV)
      [] OTHER -> MethErr(error("Dict does not have a .{}() method"))

\* Evaluator::call_method
call_method(obj, method, args) ==
    CASE obj.t = "array" -> array_method(obj.items, method, args)
      [] obj.t = "string" -> string_method(obj.s, method, args)
      [] obj.t = "dict" -> dict_method(obj.entries, method, args)
      [] OTHER -> MethErr(error("{} does not have a .{}() method"))


\* builtin_rand: the PCG-style step on the 64-bit state, kept as eight
\* bytes (least significant first) so that the wrapping arithmetic is exact.
RandMultiplier == <<45, 127, 149, 76, 45, 244, 81, 88>>
RandIncrement == <<79, 129, 103, 247, 126, 123, 5, 20>>
RandZero == <<0, 0, 0, 0, 0, 0, 0, 0>>

\* column sums of the schoolbook product, before carrying
MulColumn(a, b, k) ==
    SumSeq([i \in 1..k |-> a[i] * b[k + 1 - i]])

RECURSIVE CarryFrom(_, _, _)
CarryFrom(cols, k, carry) ==
    IF k > 8 THEN <<>>
    ELSE <<(cols[k] + carry) % 256>> \o CarryFrom(cols, k + 1, (cols[k] + carry) \div 256)

WrappingMul(a, b) == CarryFrom([k \in 1..8 |-> MulColumn(a, b, k)], 1, 0)
WrappingAdd(a, b) == CarryFrom([k \in 1..8 |-> a[k] + b[k]], 1, 0)

\* (state >> 33): the upper 31 bits as a number
ShiftRight33(st) ==
    (st[5] \div 2) + st[6] * 128 + st[7] * 32768 + st[8] * 8388608

RandNext(st) == WrappingAdd(WrappingMul(st, RandMultiplier), RandIncrement)

builtin_rand(args, rand_state) ==
    IF Len(args) # 1 THEN [r |-> OpErr(expect_args_err("rand")), state |-> rand_state]
    ELSE IF args[1].t # "number"
         THEN [r |-> OpErr(expect_number_err("rand")), state |-> rand_state]
    ELSE IF args[1].n <= 0
         THEN [r |-> OpErr(error("rand needs a positive number")), state |-> rand_state]
    ELSE [r |-> OpOk(NumV(ShiftRight33(RandNext(rand_state)) % args[1].n)),
          state |-> RandNext(rand_state)]

\* ======================================================================
\* parser.rs: the AST
\* ======================================================================

ENumber(n) == [kind |-> "Number", n |-> n, h |-> 0]
\* a literal with a fractional part of one half, such as 2.5
ENumberHalf(n, h) == [kind |-> "Number", n |-> n, h |-> h]
EStr(s) == [kind |-> "Str", s |-> s]
EBool(b) == [kind |-> "Bool", b |-> b]
ENone == [kind |-> "None"]
EIdent(name) == [kind |-> "Ident", name |-> name]
EBinaryOp(left, op, right) == [kind |-> "BinaryOp", left |-> left, op |-> op, right |-> right]
EUnaryOp(op, expr) == [kind |-> "UnaryOp", op |-> op, expr |-> expr]
ECall(callee, args) == [kind |-> "Call", callee |-> callee, args |-> args]
EMethodCall(object, method, args) ==
    [kind |-> "MethodCall", object |-> object, method |-> method, args |-> args]
EIndex(object, index) == [kind |-> "Index", object |-> object, index |-> index]
EArray(elements) == [kind |-> "Array", elements |-> elements]
EDict(entries) == [kind |-> "Dict", entries |-> entries]
EIfExpr(condition, then_expr, else_expr) ==
    [kind |-> "IfExpr", condition |-> condition, then_expr |-> then_expr,
     else_expr |-> else_expr]

SLet(name, value) == [kind |-> "Let", name |-> name, value |-> value]
SAssign(target, op, value) == [kind |-> "Assign", target |-> target, op |-> op, value |-> value]
TVariable(name) == [kind |-> "Variable", name |-> name]
TIndex(object, index) == [kind |-> "Index", object |-> object, index |-> index]
SIf(condition, body, else_ifs, has_else, else_body) ==
    [kind |-> "If", condition |-> condition, body |-> body, else_ifs |-> else_ifs,
     has_else |-> has_else, else_body |-> else_body]
SWhile(condition, body) == [kind |-> "While", condition |-> condition, body |-> body]
SRepeat(count, body) == [kind |-> "Repeat", count |-> count, body |-> body]
SForIn(var, iterable, body) == [kind |-> "ForIn", var |-> var, iterable |-> iterable, body |-> body]
SFnDecl(name, params, body) == [kind |-> "FnDecl", name |-> name, params |-> params, body |-> body]
SReturn(has_value, value) == [kind |-> "Return", has_value |-> has_value, value |-> value]
SBreak == [kind |-> "Break"]
SContinue == [kind |-> "Continue"]
SExprStmt(expr) == [kind |-> "ExprStmt", expr |-> expr]


\* ======================================================================
\* lib.rs: hosts.  TestHost and StdHost handle no name; CustomHost handles
\* "greet".  tick_fail = k > 0 makes on_tick fail at its k-th call (a host
\* that cancels the program); tick_fail = 0 is the default on_tick.
\* ======================================================================

HostKinds == {"TestHost", "CustomHost"}
HostTickError == error("cancelled by host")

\* BopHost::on_tick
HostOnTickFails(cfg, nth_call) == cfg.tick_fail > 0 /\ nth_call = cfg.tick_fail

\* BopHost::function_hint
function_hint(cfg) == IF cfg.kind = "CustomHost" THEN "Available: greet(name)" ELSE ""

\* BopHost::call: handled = FALSE stands for None
HostCall(cfg, name, args) ==
    IF cfg.kind = "CustomHost" /\ name = "greet"
    THEN IF Len(args) # 1
         THEN [handled |-> TRUE, r |-> OpErr(error("greet() needs 1 argument"))]
         ELSE LET msg == <<"H", "e", "l", "l", "o", ",", " ">> \o Display(args[1]) \o <<"!">>
              IN [handled |-> TRUE,
                  r |-> OpOk(new_str(msg, FormatCapFrom(16, 0, <<7, Len(Display(args[1])), 1>>)))]
    ELSE [handled |-> FALSE, r |-> OpOk(NoneV)]

\* ======================================================================
\* evaluator.rs: the Evaluator as a machine.  A machine state m bundles the
\* fields of the Evaluator (scopes, functions, steps, call_depth, limits,
\* rand_state), the ledger of its thread (used, limit), the host (cfg and
\* what the host has been told), the control position (ctl: what is being
\* executed or returned; kont: the frames of the callers, innermost last)
\* and the history the properties refer to (hist).
\* ======================================================================

CtlEval(e) == [c |-> "eval", e |-> e]
CtlVal(v) == [c |-> "val", v |-> v]
CtlSig(sg, v) == [c |-> "sig", s |-> sg, v |-> v]
CtlErr(e) == [c |-> "err", e |-> e]
CtlBlock(stmts, i) == [c |-> "exec_block", stmts |-> stmts, i |-> i]
CtlStmt(stmt) == [c |-> "exec_stmt", stmt |-> stmt]
CtlCall(name, args) == [c |-> "call", name |-> name, args |-> args]
CtlIdle == [c |-> "idle"]

\* A frame of kind k holding the values vals and the AST data d
Frame(k, vals, d) == [k |-> k, vals |-> vals, d |-> d]

Top(m) == m.kont[Len(m.kont)]
Pop(m) == [m EXCEPT !.kont = SubSeq(@, 1, Len(@) - 1)]
Push(m, f) == [m EXCEPT !.kont = Append(@, f)]
Goto(m, ctl) == [m EXCEPT !.ctl = ctl]

AllocM(m, bytes) == [m EXCEPT !.used = bop_alloc(@, bytes)]
DeallocM(m, bytes) == [m EXCEPT !.used = bop_dealloc(@, bytes)]

\* An error is raised (not merely propagated): src names what raised it.
Raise(m, e, src) ==
    [m EXCEPT !.ctl = CtlErr(e),
              !.hist.first_err = IF m.hist.raised = 0 THEN e ELSE @,
              !.hist.err_src = IF m.hist.raised = 0 THEN src ELSE @,
              !.hist.raised = @ + 1]

\* The error is raised after the values of `bytes` bytes have been dropped
Fail(m, e, src, bytes) == Raise(DeallocM(m, bytes), e, src)

\* Records the outcome r of an operation with unbounded output
NoteOp(m, r) ==
    IF r.unb = "none" THEN m
    ELSE [m EXCEPT !.hist.last_op =
             [unb |-> r.unb, checked |-> r.checked, produced |-> r.ok,
              would |-> bop_would_exceed(m.used, m.limit, r.bytes),
              memerr |-> ~r.ok /\ r.e.msg = MemoryLimitMsg],
          !.hist.ops = @ \cup {r.unb}]

\* ---------------------------------------------------------------------
\* Scopes (push_scope, pop_scope, define, get_var, set_var)
\* ---------------------------------------------------------------------

EmptyScope == [x \in {} |-> NoneV]

ScopeInsert(scope, name, v) ==
    [x \in (DOMAIN scope) \cup {name} |-> IF x = name THEN v ELSE scope[x]]

RECURSIVE ScopeBytesOver(_, _)
ScopeBytesOver(scope, names) ==
    IF names = {} THEN 0
    ELSE LET n == CHOOSE x \in names : TRUE
         IN DropBytes(scope[n]) + ScopeBytesOver(scope, names \ {n})
ScopeBytes(scope) == ScopeBytesOver(scope, DOMAIN scope)
ScopesBytes(scopes) == SumSeq([i \in 1..Len(scopes) |-> ScopeBytes(scopes[i])])

push_scope(m) == [m EXCEPT !.scopes = Append(@, EmptyScope)]

\* pop_scope: the values of the popped scope are dropped
pop_scope(m) ==
    IF m.scopes = <<>> THEN m
    ELSE DeallocM([m EXCEPT !.scopes = SubSeq(@, 1, Len(@) - 1)],
                  ScopeBytes(m.scopes[Len(m.scopes)]))

\* define: insert into the innermost scope; a replaced value is dropped
define(m, name, v) ==
    LET n == Len(m.scopes)
    IN IF n = 0 THEN DeallocM(m, DropBytes(v))
       ELSE DeallocM([m EXCEPT !.scopes[n] = ScopeInsert(@, name, v)],
                     IF name \in DOMAIN m.scopes[n] THEN DropBytes(m.scopes[n][name]) ELSE 0)

\* get_var: the innermost scope that holds name (0 when there is none)
RECURSIVE FindScope(_, _, _)
FindScope(scopes, name, i) ==
    IF i = 0 THEN 0
    ELSE IF name \in DOMAIN scopes[i] THEN i ELSE FindScope(scopes, name, i - 1)
get_var(m, name) == FindScope(m.scopes, name, Len(m.scopes))
VarValue(m, name) == m.scopes[get_var(m, name)][name]

\* set_var: replaces the innermost binding (the old value is dropped);
\* when there is none the new value is dropped and the result is false
set_var_shared(m, name, v) ==
    LET i == get_var(m, name)
    IN IF i = 0 THEN DeallocM(m, DropBytes(v))
       ELSE DeallocM([m EXCEPT !.scopes =
                         [j \in 1..Len(m.scopes) |->
                            [x \in DOMAIN m.scopes[j] |->
                               IF values_equal(m.scopes[j][x], m.scopes[i][name])
                               THEN v ELSE m.scopes[j][x]]]],
                     DropBytes(m.scopes[i][name]))
set_var(m, name, v) ==
    LET i == get_var(m, name)
    IN IF i = 0 THEN DeallocM(m, DropBytes(v))
       ELSE DeallocM([m EXCEPT !.scopes[i] = ScopeInsert(@, name, v)],
                     DropBytes(m.scopes[i][name]))

\* ---------------------------------------------------------------------
\* Evaluator::tick
\* ---------------------------------------------------------------------

\* `self.steps > self.limits.max_steps`
StepLimitReached_late(m) == m.steps > m.limits.max_steps + 1
StepLimitReached(m) == m.steps > m.limits.max_steps

tick_host_first(m) ==
    LET m1 == [m EXCEPT !.steps = @ + 1, !.host.tick_calls = @ + 1]
    IN IF HostOnTickFails(m.cfg, m1.host.tick_calls)
       THEN Raise(m1, HostTickError, "host")
       ELSE IF StepLimitReached(m1)
       THEN Raise(m1, error_with_hint(StepLimitMsg,
                  "Check your loops - make sure they have a condition that eventually stops them."),
                  "tick")
       ELSE IF bop_memory_exceeded(m.used, m.limit)
       THEN Raise(m1, error_with_hint(MemoryLimitMsg,
                  "Your code is using too much memory. Check for large strings or arrays growing in loops."),
                  "tick")
       ELSE [m1 EXCEPT !.hist.ok_ticks = @ + 1]
tick(m) ==
    LET m1 == [m EXCEPT !.steps = @ + 1]
    IN IF StepLimitReached(m1)
       THEN Raise(m1, error_with_hint(StepLimitMsg,
                  "Check your loops - make sure they have a condition that eventually stops them."),
                  "tick")
       ELSE IF bop_memory_exceeded(m.used, m.limit)
       THEN Raise(m1, error_with_hint(MemoryLimitMsg,
                  "Your code is using too much memory. Check for large strings or arrays growing in loops."),
                  "tick")
       ELSE LET m2 == [m1 EXCEPT !.host.tick_calls = @ + 1]
            IN IF HostOnTickFails(m.cfg, m2.host.tick_calls)
               THEN Raise(m2, HostTickError, "host")
               ELSE [m2 EXCEPT !.hist.ok_ticks = @ + 1]

Ticked(m) == m.ctl.c # "err"


\* ---------------------------------------------------------------------
\* Evaluator::exec_block: the statement at position i of stmts is next
\* ---------------------------------------------------------------------

ExecBlockStep(m) ==
    LET stmts == m.ctl.stmts
        i == m.ctl.i
    IN IF i > Len(stmts) THEN Goto(m, CtlSig("None", NoneV))
       ELSE Goto(Push(m, Frame("BlockK", <<>>, [stmts |-> stmts, i |-> i])),
                 CtlStmt(stmts[i]))

\* exec_block receives the signal of the statement it executed
BlockSignal(m0, f, sg, v) ==
    IF sg = "None" THEN Goto(m0, CtlBlock(f.d.stmts, f.d.i + 1))
    ELSE Goto(m0, CtlSig(sg, v))

\* ---------------------------------------------------------------------
\* Evaluator::exec_stmt: tick, then the statement by kind (up to its first
\* sub-evaluation)
\* ---------------------------------------------------------------------

\* self.functions.insert(name, FnDef { params, body }), had the table kept
\* the definition it already holds under the name
functions_insert_keep_first(table, stmt) ==
    [x \in (DOMAIN table) \cup {stmt.name} |->
        IF x \in DOMAIN table THEN table[x]
        ELSE [params |-> stmt.params, body |-> stmt.body]]

\* self.functions.insert(name, FnDef { params, body }): the definition is
\* added, or put in the place of the one the table holds under the name
functions_insert(table, stmt) ==
    [x \in (DOMAIN table) \cup {stmt.name} |->
        IF x = stmt.name THEN [params |-> stmt.params, body |-> stmt.body]
        ELSE table[x]]

StmtDispatch(m, stmt) ==
    CASE stmt.kind = "Let" ->
            Goto(Push(m, Frame("LetK", <<>>, stmt)), CtlEval(stmt.value))
      [] stmt.kind = "Assign" ->
            Goto(Push(m, Frame("AssignK", <<>>, stmt)), CtlEval(stmt.value))
      [] stmt.kind = "If" ->
            Goto(Push(m, Frame("IfCondK", <<>>, [stmt |-> stmt, i |-> 0])),
                 CtlEval(stmt.condition))
      [] stmt.kind = "While" -> Goto(m, [c |-> "while_iter", stmt |-> stmt])
      [] stmt.kind = "Repeat" ->
            Goto(Push(m, Frame("RepeatCountK", <<>>, stmt)), CtlEval(stmt.count))
      [] stmt.kind = "ForIn" ->
            Goto(Push(m, Frame("ForIterableK", <<>>, stmt)), CtlEval(stmt.iterable))
      [] stmt.kind = "FnDecl" ->
            Goto([m EXCEPT !.functions = functions_insert(@, stmt)], CtlSig("None", NoneV))
      [] stmt.kind = "Return" ->
            IF stmt.has_value
            THEN Goto(Push(m, Frame("ReturnK", <<>>, stmt)), CtlEval(stmt.value))
            ELSE Goto(m, CtlSig("Return", NoneV))
      [] stmt.kind = "Break" -> Goto(m, CtlSig("Break", NoneV))
      [] stmt.kind = "Continue" -> Goto(m, CtlSig("Continue", NoneV))
      [] stmt.kind = "ExprStmt" ->
            Goto(Push(m, Frame("ExprStmtK", <<>>, stmt)), CtlEval(stmt.expr))

ExecStmtStep(m) ==
    LET m1 == tick([m EXCEPT !.hist.stmt_execs = @ + 1])
    IN IF Ticked(m1) THEN StmtDispatch(m1, m.ctl.stmt) ELSE m1

\* ---------------------------------------------------------------------
\* Loops
\* ---------------------------------------------------------------------

\* One turn of `loop { tick; test the condition ... }` of While
WhileIterStep_no_tick(m) ==
    LET m1 == [m EXCEPT !.hist.loop_iters = @ + 1]
    IN Goto(Push(m1, Frame("WhileCondK", <<>>, m.ctl.stmt)),
            CtlEval(m.ctl.stmt.condition))
WhileIterStep(m) ==
    LET m1 == tick([m EXCEPT !.hist.loop_iters = @ + 1])
    IN IF Ticked(m1)
       THEN Goto(Push(m1, Frame("WhileCondK", <<>>, m.ctl.stmt)),
                 CtlEval(m.ctl.stmt.condition))
       ELSE m1

\* The condition of While has been evaluated (the temporary is dropped)
WhileCond(m0, f, v) ==
    LET m1 == DeallocM(m0, DropBytes(v))
    IN IF ~is_truthy(v) THEN Goto(m1, CtlSig("None", NoneV))
       ELSE Goto(Push(push_scope(m1), Frame("WhileBodyK", <<>>, f.d)),
                 CtlBlock(f.d.body, 1))

\* The body of While has returned its signal
WhileBodySignal_return_ends(m0, f, sg, v) ==
    LET m1 == pop_scope(m0)
    IN CASE sg = "Break" -> Goto(m1, CtlSig("None", NoneV))
         [] sg = "Return" -> Goto(DeallocM(m1, DropBytes(v)), CtlSig("None", NoneV))
         [] OTHER -> Goto(m1, [c |-> "while_iter", stmt |-> f.d])
WhileBodySignal(m0, f, sg, v) ==
    LET m1 == pop_scope(m0)
    IN CASE sg = "Break" -> Goto(m1, CtlSig("None", NoneV))
         [] sg = "Return" -> Goto(m1, CtlSig("Return", v))
         [] OTHER -> Goto(m1, [c |-> "while_iter", stmt |-> f.d])

\* `for _ in 0..n.max(0)`: the next turn, or the end of the loop
RepeatNext(m, stmt, remaining) ==
    IF remaining <= 0 THEN Goto(m, CtlSig("None", NoneV))
    ELSE Goto(m, [c |-> "repeat_iter", stmt |-> stmt, remaining |-> remaining])

\* The count of Repeat has been evaluated
RepeatCount(m0, f, v) ==
    IF v.t = "number" THEN RepeatNext(m0, f.d, Max(v.n, 0))
    ELSE Fail(m0, error("repeat needs a number, but got {}"), "op", DropBytes(v))

\* One turn of Repeat: tick, then the body in a fresh scope
RepeatIterStep(m) ==
    LET m1 == tick([m EXCEPT !.hist.loop_iters = @ + 1])
    IN IF Ticked(m1)
       THEN Goto(Push(push_scope(m1),
                      Frame("RepeatBodyK", <<>>,
                            [stmt |-> m.ctl.stmt, remaining |-> m.ctl.remaining - 1])),
                 CtlBlock(m.ctl.stmt.body, 1))
       ELSE m1

RepeatBodySignal_recount(m0, f, sg, v) ==
    LET m1 == pop_scope(m0)
    IN CASE sg = "Break" -> Goto(m1, CtlSig("None", NoneV))
         [] sg = "Return" -> Goto(m1, CtlSig("Return", v))
         [] OTHER -> Goto(Push(m1, Frame("RepeatCountK", <<>>, f.d.stmt)),
                          CtlEval(f.d.stmt.count))
RepeatBodySignal(m0, f, sg, v) ==
    LET m1 == pop_scope(m0)
    IN CASE sg = "Break" -> Goto(m1, CtlSig("None", NoneV))
         [] sg = "Return" -> Goto(m1, CtlSig("Return", v))
         [] OTHER -> RepeatNext(m1, f.d.stmt, f.d.remaining)

\* BopArray::take: the elements leave the array, its buffer is deducted
ArrayTake_keep(m, arr) == m
ArrayTake(m, arr) == DeallocM(m, arr.cap * SizeOfValue)

\* `for item in items`: the next turn, or the end of the loop.  The frame
\* ForLoopK holds the iterated value (first) and the items not yet bound.
ForNext(m, f) ==
    IF Len(f.vals) <= 1
    THEN Goto(DeallocM(m, DropBytesSeq(f.vals)), CtlSig("None", NoneV))
    ELSE Goto(Push(m, f), [c |-> "for_iter"])

\* The iterable of ForIn has been evaluated
ForIterable(m0, f, v) ==
    CASE v.t = "array" ->
            ForNext(ArrayTake(m0, v),
                    Frame("ForLoopK", <<ArrV(<<>>, 0)>> \o v.items, f.d))
      [] v.t = "string" ->
            ForNext(AllocM(m0, Len(v.s)),
                    Frame("ForLoopK",
                          <<v>> \o [i \in 1..Len(v.s) |-> new_str(<<v.s[i]>>, 1)], f.d))
      [] OTHER -> Fail(m0, error("Cannot iterate over {}"), "op", DropBytes(v))

\* One turn of ForIn: tick, then the body with the item bound in a fresh scope
ForIterStep_live(m) ==
    LET f == Top(m)
        m1 == tick([m EXCEPT !.hist.loop_iters = @ + 1])
        rest == <<f.vals[1]>> \o SubSeq(f.vals, 3, Len(f.vals))
        live == /\ f.d.iterable.kind = "Ident"
                /\ get_var(m, f.d.iterable.name) > 0
                /\ VarValue(m, f.d.iterable.name).t = "array"
                /\ Len(VarValue(m, f.d.iterable.name).items) >= Len(f.vals) - 1
        item == IF live
                THEN CloneValue(VarValue(m, f.d.iterable.name).items[
                        Len(VarValue(m, f.d.iterable.name).items) - Len(f.vals) + 2])
                ELSE f.vals[2]
    IN IF Ticked(m1)
       THEN Goto(define(push_scope([m1 EXCEPT !.kont[Len(m.kont)].vals = rest]),
                        f.d.var, item),
                 CtlBlock(f.d.body, 1))
       ELSE m1
ForIterStep(m) ==
    LET f == Top(m)
        m1 == tick([m EXCEPT !.hist.loop_iters = @ + 1])
        rest == <<f.vals[1]>> \o SubSeq(f.vals, 3, Len(f.vals))
    IN IF Ticked(m1)
       THEN Goto(define(push_scope([m1 EXCEPT !.kont[Len(m.kont)].vals = rest]),
                        f.d.var, f.vals[2]),
                 CtlBlock(f.d.body, 1))
       ELSE m1

ForBodySignal_swallow(m0, f, sg, v) ==
    LET m1 == pop_scope(m0)
    IN CASE sg = "Break" ->
               Goto(DeallocM(m1, DropBytesSeq(f.vals)), CtlSig("None", NoneV))
         [] sg = "Return" ->
               Goto(DeallocM(m1, DropBytesSeq(f.vals) + DropBytes(v)),
                    CtlSig("None", NoneV))
         [] OTHER -> ForNext(m1, f)
ForBodySignal(m0, f, sg, v) ==
    LET m1 == pop_scope(m0)
    IN CASE sg = "Break" ->
               Goto(DeallocM(m1, DropBytesSeq(f.vals)), CtlSig("None", NoneV))
         [] sg = "Return" ->
               Goto(DeallocM(m1, DropBytesSeq(f.vals)), CtlSig("Return", v))
         [] OTHER -> ForNext(m1, f)

\* ---------------------------------------------------------------------
\* If: conditions in order, the taken branch in a fresh scope
\* ---------------------------------------------------------------------

IfCond(m0, f, v) ==
    LET stmt == f.d.stmt
        i == f.d.i
        m1 == DeallocM(m0, DropBytes(v))
    IN IF is_truthy(v)
       THEN Goto(Push(push_scope(m1), Frame("IfBodyK", <<>>, stmt)),
                 CtlBlock(IF i = 0 THEN stmt.body ELSE stmt.else_ifs[i].body, 1))
       ELSE IF i < Len(stmt.else_ifs)
       THEN Goto(Push(m1, Frame("IfCondK", <<>>, [stmt |-> stmt, i |-> i + 1])),
                 CtlEval(stmt.else_ifs[i + 1].cond))
       ELSE IF stmt.has_else
       THEN Goto(Push(push_scope(m1), Frame("IfBodyK", <<>>, stmt)),
                 CtlBlock(stmt.else_body, 1))
       ELSE Goto(m1, CtlSig("None", NoneV))

IfBodySignal_keep(m0, f, sg, v) == Goto(m0, CtlSig(sg, v))
IfBodySignal(m0, f, sg, v) == Goto(pop_scope(m0), CtlSig(sg, v))


\* ---------------------------------------------------------------------
\* Evaluator::eval_expr: the expression by kind (up to its first
\* sub-evaluation)
\* ---------------------------------------------------------------------

EvalExprStep(m) ==
    LET e == m.ctl.e
    IN CASE e.kind = "Number" -> Goto(m, CtlVal(FromHalves(2 * e.n + e.h)))
         [] e.kind = "Str" ->
               Goto(AllocM(m, Len(e.s)), CtlVal(new_str(e.s, Len(e.s))))
         [] e.kind = "Bool" -> Goto(m, CtlVal(BoolV(e.b)))
         [] e.kind = "None" -> Goto(m, CtlVal(NoneV))
         [] e.kind = "Ident" ->
               IF get_var(m, e.name) = 0
               THEN Raise(m, error_with_hint("Variable {} not found",
                                             "Did you forget to create it with let?"), "op")
               ELSE Goto(AllocM(m, CloneBytes(VarValue(m, e.name))),
                         CtlVal(CloneValue(VarValue(m, e.name))))
         [] e.kind = "BinaryOp" ->
               Goto(Push(m, Frame("BinLeftK", <<>>, e)), CtlEval(e.left))
         [] e.kind = "UnaryOp" ->
               Goto(Push(m, Frame("UnaryK", <<>>, e)), CtlEval(e.expr))
         [] e.kind = "Call" ->
               IF e.callee.kind # "Ident"
               THEN Raise(m, error("Can only call named functions"), "op")
               ELSE IF e.args = <<>> THEN Goto(m, CtlCall(e.callee.name, <<>>))
               ELSE Goto(Push(m, Frame("ArgsK", <<>>, e)), CtlEval(e.args[1]))
         [] e.kind = "MethodCall" ->
               IF e.args = <<>>
               THEN Goto(Push(m, Frame("MethodObjK", <<>>, e)), CtlEval(e.object))
               ELSE Goto(Push(m, Frame("MethodArgsK", <<>>, e)), CtlEval(e.args[1]))
         [] e.kind = "Index" ->
               Goto(Push(m, Frame("IndexObjK", <<>>, e)), CtlEval(e.object))
         [] e.kind = "Array" ->
               IF e.elements = <<>> THEN Goto(m, CtlVal(new_array(<<>>, 0)))
               ELSE Goto(Push(m, Frame("ArrayK", <<>>, e)), CtlEval(e.elements[1]))
         [] e.kind = "Dict" ->
               IF e.entries = <<>> THEN Goto(m, CtlVal(new_dict(<<>>, 0)))
               ELSE Goto(Push(m, Frame("DictK", <<>>, e)), CtlEval(e.entries[1].value))
         [] e.kind = "IfExpr" ->
               Goto(Push(m, Frame("IfExprK", <<>>, e)), CtlEval(e.condition))

\* The result r of an operation on operands of `held` bytes: the result is
\* added to the ledger, then the operands are dropped
Finish(m, r0, held) ==
    Once(r0, LAMBDA r :
        IF r.ok THEN Goto(DeallocM(AllocM(NoteOp(m, r), DropBytes(r.v)), held), CtlVal(r.v))
        ELSE Fail(NoteOp(m, r), r.e,
                  IF r.checked /\ r.e.msg = MemoryLimitMsg THEN "preflight" ELSE "op", held))

\* `&&` / `||`: the left operand has been evaluated
LogicalLeft_eager(m0, f, v) ==
    Goto(Push(m0, Frame("LogicalRightK", <<v>>, f.d)), CtlEval(f.d.right))
LogicalLeft(m0, f, v) ==
    IF (f.d.op = "And" /\ ~is_truthy(v)) \/ (f.d.op = "Or" /\ is_truthy(v))
    THEN Goto(DeallocM(m0, DropBytes(v)), CtlVal(BoolV(f.d.op = "Or")))
    ELSE Goto(Push(m0, Frame("LogicalRightK", <<v>>, f.d)), CtlEval(f.d.right))

\* The left operand of a binary operator has been evaluated
BinLeft(m0, f, v) ==
    IF f.d.op \in {"And", "Or"} THEN LogicalLeft(m0, f, v)
    ELSE Goto(Push(m0, Frame("BinRightK", <<v>>, f.d)), CtlEval(f.d.right))

LogicalRight(m0, f, v) ==
    Goto(DeallocM(m0, DropBytes(v) + DropBytesSeq(f.vals)), CtlVal(BoolV(is_truthy(v))))

\* Both operands have been evaluated: binary_op
BinRight(m0, f, v) ==
    Finish(m0, binary_op(m0.used, m0.limit, f.vals[1], f.d.op, v),
           DropBytes(f.vals[1]) + DropBytes(v))

\* UnaryOp
Unary(m0, f, v) ==
    IF f.d.op = "Neg"
    THEN IF v.t = "number" THEN Goto(m0, CtlVal(FromHalves(0 - Halves(v))))
         ELSE Fail(m0, error("Cannot negate a {}"), "op", DropBytes(v))
    ELSE Goto(DeallocM(m0, DropBytes(v)), CtlVal(BoolV(~is_truthy(v))))

\* An argument of a call has been evaluated: the next one, or the call
CallArg(m0, f, v) ==
    LET evald == Append(f.vals, v)
    IN IF Len(evald) < Len(f.d.args)
       THEN Goto(Push(m0, Frame("ArgsK", evald, f.d)), CtlEval(f.d.args[Len(evald) + 1]))
       ELSE Goto(m0, CtlCall(f.d.callee.name, evald))

\* An argument of a method call has been evaluated: the next one, or the receiver
MethodArg(m0, f, v) ==
    LET evald == Append(f.vals, v)
    IN IF Len(evald) < Len(f.d.args)
       THEN Goto(Push(m0, Frame("MethodArgsK", evald, f.d)),
                 CtlEval(f.d.args[Len(evald) + 1]))
       ELSE Goto(Push(m0, Frame("MethodObjK", evald, f.d)), CtlEval(f.d.object))

\* The receiver has been evaluated: call_method and the write-back
MethodObj(m0, f, v) ==
    Once(call_method(v, f.d.method, f.vals), LAMBDA r :
    LET held == DropBytes(v) + DropBytesSeq(f.vals)
        m1 == NoteOp(m0, r)
    IN IF ~r.ok THEN Fail(m1, r.e, "op", held)
       ELSE LET m2 == AllocM(m1, DropBytes(r.v)
                                 + (IF r.some THEN DropBytes(r.mutated) ELSE 0))
                m3 == IF ~r.some THEN m2
                      ELSE IF is_mutating_method(f.d.method) /\ f.d.object.kind = "Ident"
                      THEN set_var(m2, f.d.object.name, r.mutated)
                      ELSE DeallocM(m2, DropBytes(r.mutated))
            IN Goto(DeallocM(m3, held), CtlVal(r.v)))

IndexObj(m0, f, v) ==
    Goto(Push(m0, Frame("IndexIdxK", <<v>>, f.d)), CtlEval(f.d.index))

\* Object and index have been evaluated: index_into
IndexIdx(m0, f, v) ==
    Finish(m0, index_into(f.vals[1], v), DropBytes(f.vals[1]) + DropBytes(v))

\* An element of an array literal has been evaluated
ArrayElem(m0, f, v) ==
    LET items == Append(f.vals, v)
    IN IF Len(items) < Len(f.d.elements)
       THEN Goto(Push(m0, Frame("ArrayK", items, f.d)),
                 CtlEval(f.d.elements[Len(items) + 1]))
       ELSE Goto(AllocM(m0, PushedCap(Len(items)) * SizeOfValue),
                 CtlVal(new_array(items, PushedCap(Len(items)))))

\* A value of a dict literal has been evaluated
DictEntry_reversed(m0, f, v) ==
    LET vals == Append(f.vals, v)
        n == Len(vals)
        entries == [i \in 1..n |->
                      DEntry(f.d.entries[n + 1 - i].key, Len(f.d.entries[n + 1 - i].key),
                             vals[n + 1 - i])]
    IN IF n < Len(f.d.entries)
       THEN Goto(Push(m0, Frame("DictK", vals, f.d)), CtlEval(f.d.entries[n + 1].value))
       ELSE Goto(AllocM(m0, OwnBytes(new_dict(entries, PushedCap(n)))),
                 CtlVal(new_dict(entries, PushedCap(n))))
DictEntry(m0, f, v) ==
    LET vals == Append(f.vals, v)
        n == Len(vals)
        entries == [i \in 1..n |-> DEntry(f.d.entries[i].key, Len(f.d.entries[i].key), vals[i])]
    IN IF n < Len(f.d.entries)
       THEN Goto(Push(m0, Frame("DictK", vals, f.d)), CtlEval(f.d.entries[n + 1].value))
       ELSE Goto(AllocM(m0, OwnBytes(new_dict(entries, PushedCap(n)))),
                 CtlVal(new_dict(entries, PushedCap(n))))

IfExprCond(m0, f, v) ==
    Goto(DeallocM(m0, DropBytes(v)),
         CtlEval(IF is_truthy(v) THEN f.d.then_expr ELSE f.d.else_expr))


\* ---------------------------------------------------------------------
\* Statements that wait for a value: Let, Assign (exec_assign), Return,
\* ExprStmt
\* ---------------------------------------------------------------------

LetValue(m0, f, v) == Goto(define(m0, f.d.name, v), CtlSig("None", NoneV))

ReturnStmtValue(m0, f, v) == Goto(m0, CtlSig("Return", v))

ExprStmtValue(m0, f, v) == Goto(DeallocM(m0, DropBytes(v)), CtlSig("None", NoneV))

\* The source of an error of an operation: the pre-flight checks raise the
\* memory-limit error, everything else is an ordinary runtime error
ErrSrc(r) == IF r.checked /\ r.e.msg = MemoryLimitMsg THEN "preflight" ELSE "op"

\* exec_assign, AssignTarget::Variable
AssignVariable(m, stmt, new_val) ==
    LET name == stmt.target.name
    IN IF stmt.op = "Eq"
       THEN IF get_var(m, name) = 0
            THEN Fail(m, error_with_hint("Variable {} doesnt exist yet",
                                         "Use let to create a new variable: let {} = ..."),
                      "op", DropBytes(new_val))
            ELSE Goto(set_var(m, name, new_val), CtlSig("None", NoneV))
       ELSE IF get_var(m, name) = 0
            THEN Fail(m, error("Variable {} doesnt exist yet"), "op", DropBytes(new_val))
            ELSE Once(CloneValue(VarValue(m, name)), LAMBDA current :
                 Once(AllocM(m, DropBytes(current)), LAMBDA m1 :
                 Once(apply_compound_op(m1.used, m1.limit, current, stmt.op, new_val),
                      LAMBDA r :
                 LET held == DropBytes(current) + DropBytes(new_val)
                 IN IF ~r.ok THEN Fail(NoteOp(m1, r), r.e, ErrSrc(r), held)
                    ELSE Goto(DeallocM(set_var(AllocM(NoteOp(m1, r), DropBytes(r.v)),
                                               name, r.v), held),
                              CtlSig("None", NoneV)))))

CanOnlyAssignMsg == "Can only assign to indexed variables (like arr[0] = val)"

\* exec_assign, AssignTarget::Index: the store into the indexed variable.
\* held is what exec_assign still owns besides idx and val_to_set.
AssignStore_silent(m, stmt, idx, val_to_set, held) ==
    LET object == stmt.target.object
        all == DropBytes(idx) + DropBytes(val_to_set) + held
    IN IF object.kind # "Ident"
       THEN Goto(DeallocM(m, all), CtlSig("None", NoneV))
       ELSE IF get_var(m, object.name) = 0
       THEN Fail(m, error("Variable {} doesnt exist"), "op", all)
       ELSE Once(CloneValue(VarValue(m, object.name)), LAMBDA obj :
            Once(set_index(obj, idx, val_to_set), LAMBDA st :
            LET m1 == AllocM(m, DropBytes(obj))
            IN IF ~st.ok
               THEN Fail(m1, st.e, "op", st.dealloc + DropBytes(obj) + DropBytes(idx) + held)
               ELSE Goto(DeallocM(set_var(DeallocM(AllocM(m1, st.alloc), st.dealloc),
                                          object.name, st.obj),
                                  DropBytes(idx) + held),
                         CtlSig("None", NoneV))))
AssignStore(m, stmt, idx, val_to_set, held) ==
    LET object == stmt.target.object
        all == DropBytes(idx) + DropBytes(val_to_set) + held
    IN IF object.kind # "Ident"
       THEN Fail(m, error(CanOnlyAssignMsg), "op", all)
       ELSE IF get_var(m, object.name) = 0
       THEN Fail(m, error("Variable {} doesnt exist"), "op", all)
       ELSE Once(CloneValue(VarValue(m, object.name)), LAMBDA obj :
            Once(set_index(obj, idx, val_to_set), LAMBDA st :
            LET m1 == AllocM(m, DropBytes(obj))
            IN IF ~st.ok
               THEN Fail(m1, st.e, "op", st.dealloc + DropBytes(obj) + DropBytes(idx) + held)
               ELSE Goto(DeallocM(set_var(DeallocM(AllocM(m1, st.alloc), st.dealloc),
                                          object.name, st.obj),
                                  DropBytes(idx) + held),
                         CtlSig("None", NoneV))))

\* The new value of an assignment has been evaluated
AssignValue(m0, f, v) ==
    IF f.d.target.kind = "Variable" THEN AssignVariable(m0, f.d, v)
    ELSE Goto(Push(m0, Frame("AssignIdxK", <<v>>, f.d)), CtlEval(f.d.target.index))

\* The index of an indexed assignment has been evaluated
AssignIdx(m0, f, idx) ==
    IF f.d.op = "Eq" THEN AssignStore(m0, f.d, idx, f.vals[1], 0)
    ELSE Goto(Push(m0, Frame("AssignObjK", <<f.vals[1], idx>>, f.d)),
              CtlEval(f.d.target.object))

\* The object of a compound indexed assignment has been evaluated
AssignObj(m0, f, obj) ==
    LET new_val == f.vals[1]
        idx == f.vals[2]
    IN
    Once(index_into(obj, idx), LAMBDA cur :
    Once(AllocM(m0, DropBytes(cur.v)), LAMBDA m1 :
    Once(apply_compound_op(m1.used, m1.limit, cur.v, f.d.op, new_val), LAMBDA r :
    LET m2 == AllocM(NoteOp(m1, r), DropBytes(r.v))
    IN IF ~cur.ok
       THEN Fail(m0, cur.e, "op", DropBytes(obj) + DropBytes(idx) + DropBytes(new_val))
       ELSE IF ~r.ok
       THEN Fail(NoteOp(m1, r), r.e, ErrSrc(r),
                 DropBytes(cur.v) + DropBytes(obj) + DropBytes(idx) + DropBytes(new_val))
       ELSE AssignStore(DeallocM(m2, DropBytes(cur.v) + DropBytes(obj)),
                        f.d, idx, r.v, DropBytes(new_val)))))

\* ---------------------------------------------------------------------
\* Evaluator::call_function
\* ---------------------------------------------------------------------

RECURSIVE BindParams(_, _, _, _)
BindParams(m, params, args, i) ==
    IF i > Len(params) THEN m
    ELSE BindParams(define(m, params[i], args[i]), params, args, i + 1)

CallBuiltin(m, name, args) ==
    CASE name = "range" -> [r |-> builtin_range(args), state |-> m.rand_state]
      [] name = "str" -> [r |-> builtin_str(args), state |-> m.rand_state]
      [] name = "int" -> [r |-> builtin_int(args), state |-> m.rand_state]
      [] name = "type" -> [r |-> builtin_type(args), state |-> m.rand_state]
      [] name = "abs" -> [r |-> builtin_abs(args), state |-> m.rand_state]
      [] name = "min" -> [r |-> builtin_min(args), state |-> m.rand_state]
      [] name = "max" -> [r |-> builtin_max(args), state |-> m.rand_state]
      [] name = "rand" -> builtin_rand(args, m.rand_state)
      [] name = "len" -> [r |-> builtin_len(args), state |-> m.rand_state]
      [] name = "inspect" -> [r |-> builtin_inspect(args), state |-> m.rand_state]

\* history: the successful rand calls so far, and the last one
NoteRand(m, name, args, r) ==
    IF name = "rand" /\ r.ok
    THEN [m EXCEPT !.hist.rands = @ + 1,
                   !.hist.last_rand = [n |-> args[1].n, v |-> r.v.n]]
    ELSE m

\* 3. User-defined functions
CallUser_gt(m, name, args) ==
    LET held == DropBytesSeq(args)
    IN IF name \notin DOMAIN m.functions
       THEN Fail(m, IF function_hint(m.cfg) = "" THEN error("Function {} not found")
                    ELSE error_with_hint("Function {} not found", function_hint(m.cfg)),
                 "op", held)
       ELSE LET func == m.functions[name]
            IN IF Len(args) # Len(func.params)
               THEN Fail(m, error("{} expects {} argument{}, but got {}"), "op", held)
               ELSE IF m.call_depth > MAX_CALL_DEPTH
               THEN Fail(m, error_with_hint(DepthLimitMsg,
                            "Check that your recursive function has a base case that stops calling itself."),
                         "depth", held)
               ELSE LET m1 == [m EXCEPT !.call_depth = @ + 1,
                                        !.scopes = <<EmptyScope>>,
                                        !.hist.calls = @ + 1]
                        m2 == Push(m1, Frame("CallK", <<>>, [saved_scopes |-> m.scopes]))
                    IN Goto(BindParams(m2, func.params, args, 1), CtlBlock(func.body, 1))
CallUser_keep_scopes(m, name, args) ==
    LET held == DropBytesSeq(args)
    IN IF name \notin DOMAIN m.functions
       THEN Fail(m, IF function_hint(m.cfg) = "" THEN error("Function {} not found")
                    ELSE error_with_hint("Function {} not found", function_hint(m.cfg)),
                 "op", held)
       ELSE LET func == m.functions[name]
            IN IF Len(args) # Len(func.params)
               THEN Fail(m, error("{} expects {} argument{}, but got {}"), "op", held)
               ELSE IF m.call_depth >= MAX_CALL_DEPTH
               THEN Fail(m, error_with_hint(DepthLimitMsg,
                            "Check that your recursive function has a base case that stops calling itself."),
                         "depth", held)
               ELSE LET m1 == [m EXCEPT !.call_depth = @ + 1,
                                        !.scopes = Append(m.scopes, EmptyScope),
                                        !.hist.calls = @ + 1]
                        m2 == Push(m1, Frame("CallK", <<>>, [saved_scopes |-> m.scopes]))
                    IN Goto(BindParams(m2, func.params, args, 1), CtlBlock(func.body, 1))
CallUser(m, name, args) ==
    LET held == DropBytesSeq(args)
    IN IF name \notin DOMAIN m.functions
       THEN Fail(m, IF function_hint(m.cfg) = "" THEN error("Function {} not found")
                    ELSE error_with_hint("Function {} not found", function_hint(m.cfg)),
                 "op", held)
       ELSE LET func == m.functions[name]
            IN IF Len(args) # Len(func.params)
               THEN Fail(m, error("{} expects {} argument{}, but got {}"), "op", held)
               ELSE IF m.call_depth >= MAX_CALL_DEPTH
               THEN Fail(m, error_with_hint(DepthLimitMsg,
                            "Check that your recursive function has a base case that stops calling itself."),
                         "depth", held)
               ELSE LET m1 == [m EXCEPT !.call_depth = @ + 1,
                                        !.scopes = <<EmptyScope>>,
                                        !.hist.calls = @ + 1]
                        m2 == Push(m1, Frame("CallK", <<>>, [saved_scopes |-> m.scopes]))
                    IN Goto(BindParams(m2, func.params, args, 1), CtlBlock(func.body, 1))

CallFunctionStep_user_first(m) ==
    LET name == m.ctl.name
        args == m.ctl.args
        held == DropBytesSeq(args)
    IN IF name \in DOMAIN m.functions
       THEN CallUser(m, name, args)
       ELSE IF name = "print"
       THEN Goto(DeallocM([m EXCEPT !.host.prints = Append(@, message(args, 1))], held),
                 CtlVal(NoneV))
       ELSE IF name \in BuiltinNames
       THEN Once(CallBuiltin(m, name, args), LAMBDA b :
                Finish(NoteRand([m EXCEPT !.rand_state = b.state], name, args, b.r),
                       b.r, held))
       ELSE LET h == HostCall(m.cfg, name, args)
                m1 == [m EXCEPT !.host.calls = @ + 1]
            IN IF h.handled THEN Finish(m1, h.r, held)
               ELSE CallUser(m1, name, args)
CallFunctionStep(m) ==
    LET name == m.ctl.name
        args == m.ctl.args
        held == DropBytesSeq(args)
    IN IF name = "print"
       THEN Goto(DeallocM([m EXCEPT !.host.prints = Append(@, message(args, 1))], held),
                 CtlVal(NoneV))
       ELSE IF name \in BuiltinNames
       THEN Once(CallBuiltin(m, name, args), LAMBDA b :
                Finish(NoteRand([m EXCEPT !.rand_state = b.state], name, args, b.r),
                       b.r, held))
       ELSE LET h == HostCall(m.cfg, name, args)
                m1 == [m EXCEPT !.host.calls = @ + 1]
            IN IF h.handled THEN Finish(m1, h.r, held)
               ELSE CallUser(m1, name, args)

\* exec_block of the function body has returned its signal
CallSignal_leak(m0, f, sg, v) ==
    LET m1 == [DeallocM(m0, ScopesBytes(m0.scopes))
                  EXCEPT !.scopes = f.d.saved_scopes, !.call_depth = @ - 1]
    IN CASE sg = "Return" -> Goto(m1, CtlVal(v))
         [] sg = "Break" -> Goto(m1, CtlSig("Break", NoneV))
         [] sg = "Continue" -> Goto(m1, CtlSig("Continue", NoneV))
         [] OTHER -> Goto(m1, CtlVal(NoneV))
CallSignal(m0, f, sg, v) ==
    LET m1 == [DeallocM(m0, ScopesBytes(m0.scopes))
                  EXCEPT !.scopes = f.d.saved_scopes, !.call_depth = @ - 1]
    IN CASE sg = "Return" -> Goto(m1, CtlVal(v))
         [] sg = "Break" -> Raise(m1, error(BreakOutsideMsg), "op")
         [] sg = "Continue" -> Raise(m1, error(ContinueOutsideMsg), "op")
         [] OTHER -> Goto(m1, CtlVal(NoneV))


\* ---------------------------------------------------------------------
\* Returning to the caller: a value, a signal or an error reaches the
\* innermost frame
\* ---------------------------------------------------------------------

ReturnValueStep(m) ==
    LET f == Top(m)
        m0 == Pop(m)
        v == m.ctl.v
    IN CASE f.k = "LetK" -> LetValue(m0, f, v)
         [] f.k = "AssignK" -> AssignValue(m0, f, v)
         [] f.k = "AssignIdxK" -> AssignIdx(m0, f, v)
         [] f.k = "AssignObjK" -> AssignObj(m0, f, v)
         [] f.k = "ReturnK" -> ReturnStmtValue(m0, f, v)
         [] f.k = "ExprStmtK" -> ExprStmtValue(m0, f, v)
         [] f.k = "IfCondK" -> IfCond(m0, f, v)
         [] f.k = "WhileCondK" -> WhileCond(m0, f, v)
         [] f.k = "RepeatCountK" -> RepeatCount(m0, f, v)
         [] f.k = "ForIterableK" -> ForIterable(m0, f, v)
         [] f.k = "BinLeftK" -> BinLeft(m0, f, v)
         [] f.k = "BinRightK" -> BinRight(m0, f, v)
         [] f.k = "LogicalRightK" -> LogicalRight(m0, f, v)
         [] f.k = "UnaryK" -> Unary(m0, f, v)
         [] f.k = "ArgsK" -> CallArg(m0, f, v)
         [] f.k = "MethodArgsK" -> MethodArg(m0, f, v)
         [] f.k = "MethodObjK" -> MethodObj(m0, f, v)
         [] f.k = "IndexObjK" -> IndexObj(m0, f, v)
         [] f.k = "IndexIdxK" -> IndexIdx(m0, f, v)
         [] f.k = "ArrayK" -> ArrayElem(m0, f, v)
         [] f.k = "DictK" -> DictEntry(m0, f, v)
         [] f.k = "IfExprK" -> IfExprCond(m0, f, v)

SignalFrames == {"BlockK", "WhileBodyK", "RepeatBodyK", "ForLoopK", "IfBodyK", "CallK"}

ReturnSignalStep(m) ==
    LET f == Top(m)
        m0 == Pop(m)
        sg == m.ctl.s
        v == m.ctl.v
    IN CASE f.k = "BlockK" -> BlockSignal(m0, f, sg, v)
         [] f.k = "WhileBodyK" -> WhileBodySignal(m0, f, sg, v)
         [] f.k = "RepeatBodyK" -> RepeatBodySignal(m0, f, sg, v)
         [] f.k = "ForLoopK" -> ForBodySignal(m0, f, sg, v)
         [] f.k = "IfBodyK" -> IfBodySignal(m0, f, sg, v)
         [] f.k = "CallK" -> CallSignal(m0, f, sg, v)

\* `?`: the error leaves the innermost frame.  The values the frame holds
\* are dropped; call_function restores the scopes of its caller and the
\* call depth before it passes the error on (the scopes pushed by blocks
\* stay where they are: pop_scope is skipped by `?`).
UnwindStep_catch(m) ==
    LET f == Top(m)
        m0 == DeallocM(Pop(m), DropBytesSeq(f.vals))
    IN IF f.k = "CallK"
       THEN [DeallocM(m0, ScopesBytes(m0.scopes))
                EXCEPT !.scopes = f.d.saved_scopes, !.call_depth = @ - 1,
                       !.ctl = CtlVal(NoneV)]
       ELSE m0
UnwindStep(m) ==
    LET f == Top(m)
        m0 == DeallocM(Pop(m), DropBytesSeq(f.vals))
    IN IF f.k = "CallK"
       THEN [DeallocM(m0, ScopesBytes(m0.scopes))
                EXCEPT !.scopes = f.d.saved_scopes, !.call_depth = @ - 1]
       ELSE m0

\* Evaluator::run after exec_block: the match on the signal, then the
\* Evaluator (and the value of a top-level return) is dropped
RunResult_checked(m) ==
    IF m.ctl.c = "err" THEN m
    ELSE CASE m.ctl.s = "Break" -> Raise(m, error(BreakOutsideMsg), "op")
           [] m.ctl.s = "Continue" -> Raise(m, error(ContinueOutsideMsg), "op")
           [] OTHER ->
                IF bop_memory_exceeded(m.used, m.limit)
                THEN Goto(DeallocM(m, DropBytes(m.ctl.v)),
                          CtlErr(error(MemoryLimitMsg)))
                ELSE DeallocM(m, DropBytes(m.ctl.v))
RunResult(m) ==
    IF m.ctl.c = "err" THEN m
    ELSE CASE m.ctl.s = "Break" -> Raise(m, error(BreakOutsideMsg), "op")
           [] m.ctl.s = "Continue" -> Raise(m, error(ContinueOutsideMsg), "op")
           [] OTHER -> DeallocM(m, DropBytes(m.ctl.v))

RunFinishStep(m) ==
    LET m1 == RunResult(m)
        m2 == [m1 EXCEPT !.hist.final_used = m.used,
                         !.hist.final_depth = m.call_depth]
    IN [DeallocM(m2, ScopesBytes(m2.scopes)) EXCEPT !.scopes = <<>>, !.ctl = CtlIdle]


\* ======================================================================
\* lexer.rs / parser.rs as far as `run` depends on them.  A source text is
\* a sequence of chunks: the text of a well-formed statement (which carries
\* the Stmt the parser builds from it), a chunk with a character the lexer
\* does not understand (such as @), or a chunk of tokens that the parser
\* rejects (such as a stray closing parenthesis).
\* ======================================================================

Text(stmt) == [fault |-> "none", stmt |-> stmt]
BadChar == [fault |-> "lex", stmt |-> SBreak]
BadToken == [fault |-> "parse", stmt |-> SBreak]

Ok == [ok |-> TRUE, e |-> NoError]
Err(e) == [ok |-> FALSE, e |-> e]
Pending == [ok |-> FALSE, e |-> NoError]

LexError == error("I dont understand the character {}")
ParseError == error("I didnt expect {} here")

\* lexer::lex: lex_all scans the whole text and fails at the first
\* character it does not understand
lex(src) ==
    IF \E i \in 1..Len(src) : src[i].fault = "lex"
    THEN [r |-> Err(LexError), tokens |-> <<>>]
    ELSE [r |-> Ok, tokens |-> src]

\* parser::parse: parse_program parses every statement and fails at the
\* first token it does not expect
parse_recovering(toks) ==
    LET first == CHOOSE i \in 1..(Len(toks) + 1) :
                    /\ i = Len(toks) + 1 \/ toks[i].fault = "parse"
                    /\ \A j \in 1..(i - 1) : toks[j].fault # "parse"
    IN [r |-> Ok, stmts |-> [i \in 1..(first - 1) |-> toks[i].stmt]]
parse(toks) ==
    IF \E i \in 1..Len(toks) : toks[i].fault = "parse"
    THEN [r |-> Err(ParseError), stmts |-> <<>>]
    ELSE [r |-> Ok, stmts |-> [i \in 1..Len(toks) |-> toks[i].stmt]]

\* ======================================================================
\* The state
\* ======================================================================

VARIABLES
    pc,          \* position in lib.rs run: start, lexed, parsed, new, running, done
    source,      \* the argument source of run
    tokens,      \* the local tokens of run
    stmts,       \* the local stmts of run
    limits,      \* the argument limits of run
    cfg,         \* the host passed to run
    host,        \* what the host has been told so far
    ctl,         \* what the evaluator is executing or returning
    kont,        \* the frames of the callers (innermost last)
    scopes,      \* Evaluator.scopes
    functions,   \* Evaluator.functions
    steps,       \* Evaluator.steps
    call_depth,  \* Evaluator.call_depth
    rand_state,  \* Evaluator.rand_state
    USED,        \* memory.rs USED of the thread of run
    LIMIT,       \* memory.rs LIMIT of the thread of run
    result,      \* the value run returned
    hist,        \* history of the run
    suspended,   \* executions waiting inside a host callback for a nested run
    OTHER_USED,  \* memory.rs USED of another thread
    OTHER_LIMIT, \* memory.rs LIMIT of another thread
    other_pc,    \* position of the execution on the other thread
    previous,    \* what an earlier call of run with the same arguments reported
    instructions, \* what count_instructions has returned for stmts
    parser       \* the Parser of parser::parse and the parse functions it is in

\* no Parser has been made yet
NoParser == [tokens |-> <<>>, pos |-> 0, depth |-> 0, ctl |-> [c |-> "none"], stack |-> <<>>]

vars == <<pc, source, tokens, stmts, limits, cfg, host, ctl, kont, scopes, functions,
          steps, call_depth, rand_state, USED, LIMIT, result, hist, suspended,
          OTHER_USED, OTHER_LIMIT, other_pc, previous, instructions,
          parser>>

otherVars == <<OTHER_USED, OTHER_LIMIT, other_pc>>
runArgs == <<source, limits, cfg, previous>>

\* The machine state made of the variables
M == [ctl |-> ctl, kont |-> kont, scopes |-> scopes, functions |-> functions,
      steps |-> steps, call_depth |-> call_depth, limits |-> limits,
      rand_state |-> rand_state, used |-> USED, limit |-> LIMIT, cfg |-> cfg,
      host |-> host, hist |-> hist]

\* The variables take the values of the machine state m
SetAll(m) ==
    /\ ctl' = m.ctl
    /\ kont' = m.kont
    /\ scopes' = m.scopes
    /\ functions' = m.functions
    /\ steps' = m.steps
    /\ call_depth' = m.call_depth
    /\ rand_state' = m.rand_state
    /\ USED' = m.used
    /\ LIMIT' = m.limit
    /\ host' = m.host
    /\ hist' = m.hist

\* ... where m is computed once
Set(m) == \E n \in {m} : SetAll(n)

NoOp == [unb |-> "none", checked |-> FALSE, produced |-> FALSE, would |-> FALSE,
         memerr |-> FALSE]

InitHist == [first_err |-> NoError, err_src |-> "none", raised |-> 0, last_op |-> NoOp,
             ops |-> {}, ok_ticks |-> 0, stmt_execs |-> 0, loop_iters |-> 0,
             calls |-> 0, final_used |-> 0, final_depth |-> 0,
             rands |-> 0, last_rand |-> [n |-> 0, v |-> 0]]

\* no earlier call of run
NoRun == [ran |-> FALSE, prints |-> <<>>, result |-> Pending]

InitHost == [tick_calls |-> 0, calls |-> 0, prints |-> <<>>]


\* ======================================================================
\* The programs the model runs (the source text in the comment, in the
\* style of the tests of lib.rs)
\* ======================================================================

Chars(c, n) == [i \in 1..n |-> c]
PStmt(e) == SExprStmt(ECall(EIdent("print"), <<e>>))
CallStmt(name, args) == SExprStmt(ECall(EIdent(name), args))
Prog(ss) == [i \in 1..Len(ss) |-> Text(ss[i])]

\* while true { }
P_while_true == Prog(<<SWhile(EBool(TRUE), <<>>)>>)

\* let i = 0; while i < 3 { i += 1; if i == 2 { continue }; print(i) }; print(i)
P_while_count ==
    Prog(<<SLet("i", ENumber(0)),
           SWhile(EBinaryOp(EIdent("i"), "Lt", ENumber(3)),
                  <<SAssign(TVariable("i"), "AddEq", ENumber(1)),
                    SIf(EBinaryOp(EIdent("i"), "Eq", ENumber(2)), <<SContinue>>,
                        <<>>, FALSE, <<>>),
                    PStmt(EIdent("i"))>>),
           PStmt(EIdent("i"))>>)

\* repeat 3 { print("a") }; repeat 5 { break }; repeat "x" { }
P_repeat ==
    Prog(<<SRepeat(ENumber(3), <<PStmt(EStr(<<"a">>))>>),
           SRepeat(ENumber(5), <<SBreak>>),
           SRepeat(EStr(<<"x">>), <<>>)>>)

\* for x in ["aa", "bb", "cc"] { if x == "bb" { break }; print(x) }
\* for c in "abc" { print(c) }; for n in 5 { }
P_for ==
    Prog(<<SForIn("x", EArray(<<EStr(Chars("a", 2)), EStr(Chars("b", 2)),
                               EStr(Chars("c", 2))>>),
                  <<SIf(EBinaryOp(EIdent("x"), "Eq", EStr(Chars("b", 2))), <<SBreak>>,
                        <<>>, FALSE, <<>>),
                    PStmt(EIdent("x"))>>),
           SForIn("c", EStr(<<"a", "b", "c">>), <<PStmt(EIdent("c"))>>),
           SForIn("n", ENumber(5), <<>>)>>)

\* fn f() { f() }; f()
P_rec_inf ==
    Prog(<<SFnDecl("f", <<>>, <<CallStmt("f", <<>>)>>), CallStmt("f", <<>>),
           PStmt(EStr(<<"x">>))>>)

\* fn f(n) { if n > 0 { f(n - 1) } }; f(k); print("x")
RecTo(k) ==
    Prog(<<SFnDecl("f", <<"n">>,
                   <<SIf(EBinaryOp(EIdent("n"), "Gt", ENumber(0)),
                         <<CallStmt("f", <<EBinaryOp(EIdent("n"), "Sub", ENumber(1))>>)>>,
                         <<>>, FALSE, <<>>)>>),
           CallStmt("f", <<ENumber(k)>>),
           PStmt(EStr(<<"x">>))>>)
P_rec_64 == RecTo(MAX_CALL_DEPTH - 1)
P_rec_65 == RecTo(MAX_CALL_DEPTH)

\* fn g(a) { let t = a + "x"; return t }; let r = g("a"); print(r); g()
P_fn_return ==
    Prog(<<SFnDecl("g", <<"a">>,
                   <<SLet("t", EBinaryOp(EIdent("a"), "Add", EStr(<<"x">>))),
                     SReturn(TRUE, EIdent("t"))>>),
           SLet("r", ECall(EIdent("g"), <<EStr(<<"a">>)>>)),
           PStmt(EIdent("r")),
           CallStmt("g", <<>>)>>)

\* fn h(p) { let t = "abc"; if true { let u = t[9] }; return t }
\* let s = "zz"; print(h(s)); print("never")
P_fn_err ==
    Prog(<<SFnDecl("h", <<"p">>,
                   <<SLet("t", EStr(<<"a", "b", "c">>)),
                     SIf(EBool(TRUE), <<SLet("u", EIndex(EIdent("t"), ENumber(9)))>>,
                         <<>>, FALSE, <<>>),
                     SReturn(TRUE, EIdent("t"))>>),
           SLet("s", EStr(Chars("z", 2))),
           PStmt(ECall(EIdent("h"), <<EIdent("s")>>)),
           PStmt(EStr(<<"n">>))>>)

\* fn b() { break }; fn r() { return }; r(); return "v"
P_top_return ==
    Prog(<<SFnDecl("r", <<>>, <<SReturn(FALSE, ENone)>>),
           CallStmt("r", <<>>),
           SReturn(TRUE, EStr(<<"v">>)),
           PStmt(EStr(<<"n">>))>>)

\* fn b() { break }; print("a"); b()
P_fn_break ==
    Prog(<<SFnDecl("b", <<>>, <<SBreak>>), PStmt(EStr(<<"a">>)), CallStmt("b", <<>>),
           PStmt(EStr(<<"n">>))>>)

\* let s = "aaaa"; continue
P_top_continue == Prog(<<SLet("s", EStr(Chars("a", 4))), SContinue>>)
\* let s = "aaaa"; break
P_top_break == Prog(<<SLet("s", EStr(Chars("a", 4))), SBreak>>)


CommaList(n) == [i \in 1..(2 * n - 1) |-> IF i % 2 = 1 THEN "a" ELSE ","]

\* let s = "a,a,a,a,a,a,a,a,a"; let parts = s.split(",")
P_split ==
    Prog(<<SLet("s", EStr(CommaList(9))),
           SLet("parts", EMethodCall(EIdent("s"), "split", <<EStr(<<",">>)>>))>>)

\* let s = "a,a,a,a,a,a,a,a,a"; let parts = s.split(","); let x = 1; print("n")
P_split_then ==
    P_split \o Prog(<<SLet("x", ENumber(1)), PStmt(EStr(<<"n">>))>>)

\* let a = ["a", "b"]; let j = a.join("----...----"); print(j.len())
P_join ==
    Prog(<<SLet("a", EArray(<<EStr(<<"a">>), EStr(<<"b">>)>>)),
           SLet("j", EMethodCall(EIdent("a"), "join", <<EStr(Chars("-", 40))>>)),
           PStmt(EMethodCall(EIdent("j"), "len", <<>>))>>)

\* let r = range(10); print(len(r)); print(range(3, 0)); range(0, 5, 0)
P_range ==
    Prog(<<SLet("r", ECall(EIdent("range"), <<ENumber(10)>>)),
           PStmt(ECall(EIdent("len"), <<EIdent("r")>>)),
           PStmt(ECall(EIdent("range"), <<ENumber(3), ENumber(0)>>)),
           CallStmt("range", <<ENumber(0), ENumber(5), ENumber(0)>>)>>)

\* let s = "ab" * 20; let t = "ab" * 200; print("n")
P_str_repeat ==
    Prog(<<SLet("s", EBinaryOp(EStr(<<"a", "b">>), "Mul", ENumber(20))),
           SLet("t", EBinaryOp(ENumber(200), "Mul", EStr(<<"a", "b">>))),
           PStmt(EStr(<<"n">>))>>)

\* let s = "aa" + "bb"; s += 1; let t = "aaa...a" + "bbb...b"; print("n")
P_str_concat ==
    Prog(<<SLet("s", EBinaryOp(EStr(Chars("a", 2)), "Add", EStr(Chars("b", 2)))),
           SAssign(TVariable("s"), "AddEq", ENumber(1)),
           SLet("t", EBinaryOp(EStr(Chars("a", 200)), "Add", EStr(Chars("b", 100)))),
           PStmt(EStr(<<"n">>))>>)

\* let a = [1] + [2]; let b = [1, 2, 3] + [4, 5, 6]; print("n")
P_arr_concat ==
    Prog(<<SLet("a", EBinaryOp(EArray(<<ENumber(1)>>), "Add", EArray(<<ENumber(2)>>))),
           SLet("b", EBinaryOp(EArray(<<ENumber(1), ENumber(2), ENumber(3)>>), "Add",
                               EArray(<<ENumber(4), ENumber(5), ENumber(6)>>))),
           PStmt(EStr(<<"n">>))>>)

\* print(greet("bo")); print(nope())
P_greet ==
    Prog(<<PStmt(ECall(EIdent("greet"), <<EStr(<<"b", "o">>)>>)),
           PStmt(ECall(EIdent("nope"), <<>>)),
           PStmt(EStr(<<"n">>))>>)

\* let d = {"a": 1, "k": "vv"}; d["b"] = "xx"; d["a"] += 1; print(d["b"])
\* print(d.keys()); print(d.has("a")); d[0] = 1
P_dict ==
    Prog(<<SLet("d", EDict(<<[key |-> <<"a">>, value |-> ENumber(1)],
                             [key |-> <<"k">>, value |-> EStr(Chars("v", 2))]>>)),
           SAssign(TIndex(EIdent("d"), EStr(<<"b">>)), "Eq", EStr(Chars("x", 2))),
           SAssign(TIndex(EIdent("d"), EStr(<<"a">>)), "AddEq", ENumber(1)),
           PStmt(EIndex(EIdent("d"), EStr(<<"b">>))),
           PStmt(EMethodCall(EIdent("d"), "keys", <<>>)),
           PStmt(EMethodCall(EIdent("d"), "has", <<EStr(<<"a">>)>>)),
           SAssign(TIndex(EIdent("d"), ENumber(0)), "Eq", ENumber(1))>>)

\* let a = ["x", 2]; a.push("yy"); a[0] = "s"; let b = a.pop(); a.reverse()
\* print(a); a[-1] += 1; a[7] = 0
P_array ==
    Prog(<<SLet("a", EArray(<<EStr(<<"x">>), ENumber(2)>>)),
           SExprStmt(EMethodCall(EIdent("a"), "push", <<EStr(Chars("y", 2))>>)),
           SAssign(TIndex(EIdent("a"), ENumber(0)), "Eq", EStr(<<"s">>)),
           SLet("b", EMethodCall(EIdent("a"), "pop", <<>>)),
           SExprStmt(EMethodCall(EIdent("a"), "reverse", <<>>)),
           PStmt(EIdent("a")),
           SAssign(TIndex(EIdent("a"), ENumber(-1)), "AddEq", ENumber(1)),
           SAssign(TIndex(EIdent("a"), ENumber(7)), "Eq", ENumber(0))>>)

\* if false { print("a") } else if 0 { print("b") } else { let s = "cc"; print(s) }
\* let v = if none { "t" } else { "e" }; print(!v, -3, true && "s", none || 0)
\* x = 1
P_if ==
    Prog(<<SIf(EBool(FALSE), <<PStmt(EStr(<<"a">>))>>,
               <<[cond |-> ENumber(0), body |-> <<PStmt(EStr(<<"b">>))>>]>>,
               TRUE, <<SLet("s", EStr(Chars("c", 2))), PStmt(EIdent("s"))>>),
           SLet("v", EIfExpr(ENone, EStr(<<"t">>), EStr(<<"e">>))),
           SExprStmt(ECall(EIdent("print"),
                           <<EUnaryOp("Not", EIdent("v")), EUnaryOp("Neg", ENumber(3)),
                             EBinaryOp(EBool(TRUE), "And", EStr(<<"s">>)),
                             EBinaryOp(ENone, "Or", ENumber(0))>>)),
           SAssign(TVariable("x"), "Eq", ENumber(1))>>)

\* print(str(12), int("34"), type("s"), abs(-2), min(1, 2), max(1, 2), inspect("s"))
\* print(rand(10), rand(10)); let q = 1 / 0; print("n")
P_builtins ==
    Prog(<<SExprStmt(ECall(EIdent("print"),
              <<ECall(EIdent("str"), <<ENumber(12)>>),
                ECall(EIdent("int"), <<EStr(<<"3", "4">>)>>),
                ECall(EIdent("type"), <<EStr(<<"s">>)>>),
                ECall(EIdent("abs"), <<ENumber(-2)>>),
                ECall(EIdent("min"), <<ENumber(1), ENumber(2)>>),
                ECall(EIdent("max"), <<ENumber(1), ENumber(2)>>),
                ECall(EIdent("inspect"), <<EStr(<<"s">>)>>)>>)),
           SExprStmt(ECall(EIdent("print"),
              <<ECall(EIdent("rand"), <<ENumber(10)>>),
                ECall(EIdent("rand"), <<ENumber(10)>>)>>)),
           SLet("q", EBinaryOp(ENumber(1), "Div", ENumber(0))),
           PStmt(EStr(<<"n">>))>>)

\* print(rand(6), rand(100)); print(rand(1)); let z = rand(0)
P_rand ==
    Prog(<<SExprStmt(ECall(EIdent("print"),
              <<ECall(EIdent("rand"), <<ENumber(6)>>),
                ECall(EIdent("rand"), <<ENumber(100)>>)>>)),
           PStmt(ECall(EIdent("rand"), <<ENumber(1)>>)),
           SLet("z", ECall(EIdent("rand"), <<ENumber(0)>>))>>)


\* fn len(x) { return 99 }; fn greet(n) { return "user" }
\* print(len("abc")); print(greet("bo")); print(greet())
P_shadow ==
    Prog(<<SFnDecl("len", <<"x">>, <<SReturn(TRUE, ENumber(99))>>),
           SFnDecl("greet", <<"n">>, <<SReturn(TRUE, EStr(<<"u", "s", "e", "r">>))>>),
           PStmt(ECall(EIdent("len"), <<EStr(<<"a", "b", "c">>)>>)),
           PStmt(ECall(EIdent("greet"), <<EStr(<<"b", "o">>)>>)),
           PStmt(ECall(EIdent("greet"), <<>>))>>)


\* let g = 1; fn r() { return g }; for x in [1] { let y = 2; print(r()) }
P_scope_read ==
    Prog(<<SLet("g", ENumber(1)),
           SFnDecl("r", <<>>, <<SReturn(TRUE, EIdent("g"))>>),
           SForIn("x", EArray(<<ENumber(1)>>),
                  <<SLet("y", ENumber(2)),
                    PStmt(ECall(EIdent("r"), <<>>))>>)>>)


\* let g = 1; fn w(p) { let h = p; g = 5 }
\* fn ok(p) { let g = p + 1; g = g + 1; return g }
\* if true { let y = 2; print(ok(1)); print(g); w(3) }
P_scope_assign ==
    Prog(<<SLet("g", ENumber(1)),
           SFnDecl("w", <<"p">>,
                   <<SLet("h", EIdent("p")),
                     SAssign(TVariable("g"), "Eq", ENumber(5))>>),
           SFnDecl("ok", <<"p">>,
                   <<SLet("g", EBinaryOp(EIdent("p"), "Add", ENumber(1))),
                     SAssign(TVariable("g"), "Eq",
                             EBinaryOp(EIdent("g"), "Add", ENumber(1))),
                     SReturn(TRUE, EIdent("g"))>>),
           SIf(EBool(TRUE),
               <<SLet("y", ENumber(2)),
                 PStmt(ECall(EIdent("ok"), <<ENumber(1)>>)),
                 PStmt(EIdent("g")),
                 CallStmt("w", <<ENumber(3)>>)>>,
               <<>>, FALSE, <<>>)>>)


\* let a = [1, 2]; let b = a; let c = [a]; let d = {"k": a}
\* fn m(p) { p.push(9); p[0] = 5; return p }
\* let r = m(a); a[0] = 7; a.push(3); a += [4]; b[1] = 8
\* print(a); print(b); print(c); print(d); print(r)
P_alias ==
    Prog(<<SLet("a", EArray(<<ENumber(1), ENumber(2)>>)),
           SLet("b", EIdent("a")),
           SLet("c", EArray(<<EIdent("a")>>)),
           SLet("d", EDict(<<[key |-> <<"k">>, value |-> EIdent("a")]>>)),
           SFnDecl("m", <<"p">>,
                   <<SExprStmt(EMethodCall(EIdent("p"), "push", <<ENumber(9)>>)),
                     SAssign(TIndex(EIdent("p"), ENumber(0)), "Eq", ENumber(5)),
                     SReturn(TRUE, EIdent("p"))>>),
           SLet("r", ECall(EIdent("m"), <<EIdent("a")>>)),
           SAssign(TIndex(EIdent("a"), ENumber(0)), "Eq", ENumber(7)),
           SExprStmt(EMethodCall(EIdent("a"), "push", <<ENumber(3)>>)),
           SAssign(TVariable("a"), "AddEq", EArray(<<ENumber(4)>>)),
           SAssign(TIndex(EIdent("b"), ENumber(1)), "Eq", ENumber(8)),
           PStmt(EIdent("a")),
           PStmt(EIdent("b")),
           PStmt(EIdent("c")),
           PStmt(EIdent("d")),
           PStmt(EIdent("r"))>>)


\* fn f() { print("side"); return true }
\* print(false && undefined_var); print(true || f()); print(0 && greet())
\* print("s" || 1 / 0); print(true && f()); print(false || nope)
P_short ==
    Prog(<<SFnDecl("f", <<>>,
                   <<PStmt(EStr(<<"s", "i", "d", "e">>)), SReturn(TRUE, EBool(TRUE))>>),
           PStmt(EBinaryOp(EBool(FALSE), "And", EIdent("undefined_var"))),
           PStmt(EBinaryOp(EBool(TRUE), "Or", ECall(EIdent("f"), <<>>))),
           PStmt(EBinaryOp(ENumber(0), "And", ECall(EIdent("greet"), <<>>))),
           PStmt(EBinaryOp(EStr(<<"s">>), "Or",
                           EBinaryOp(ENumber(1), "Div", ENumber(0)))),
           PStmt(EBinaryOp(EBool(TRUE), "And", ECall(EIdent("f"), <<>>))),
           PStmt(EBinaryOp(EBool(FALSE), "Or", EIdent("nope")))>>)


\* fn g() { if true { continue } }
\* for x in [1, 2, 3] {
\*   repeat 2 { if x == 2 { if true { break } }; print(x) }
\*   if x == 3 { continue }; print("e") }
\* let i = 0; while i < 2 { i += 1; if i == 1 { continue }; print("w") }
\* while true { g() }; print("n")
P_loops ==
    Prog(<<SFnDecl("g", <<>>, <<SIf(EBool(TRUE), <<SContinue>>, <<>>, FALSE, <<>>)>>),
           SForIn("x", EArray(<<ENumber(1), ENumber(2), ENumber(3)>>),
                  <<SRepeat(ENumber(2),
                            <<SIf(EBinaryOp(EIdent("x"), "Eq", ENumber(2)),
                                  <<SIf(EBool(TRUE), <<SBreak>>, <<>>, FALSE, <<>>)>>,
                                  <<>>, FALSE, <<>>),
                              PStmt(EIdent("x"))>>),
                    SIf(EBinaryOp(EIdent("x"), "Eq", ENumber(3)), <<SContinue>>,
                        <<>>, FALSE, <<>>),
                    PStmt(EStr(<<"e">>))>>),
           SLet("i", ENumber(0)),
           SWhile(EBinaryOp(EIdent("i"), "Lt", ENumber(2)),
                  <<SAssign(TVariable("i"), "AddEq", ENumber(1)),
                    SIf(EBinaryOp(EIdent("i"), "Eq", ENumber(1)), <<SContinue>>,
                        <<>>, FALSE, <<>>),
                    PStmt(EStr(<<"w">>))>>),
           SWhile(EBool(TRUE), <<CallStmt("g", <<>>)>>),
           PStmt(EStr(<<"n">>))>>)


\* fn find(xs) { for x in xs { while true { if x == 2 { repeat 3 { return x * 10 } }
\*                                          break }; print(x) }; print("end") }
\* fn nothing() { let t = 1 }; fn bare() { return; print("never") }
\* print(find([1, 2, 3])); print(nothing()); print(bare()); print(find([1]))
P_return ==
    Prog(<<SFnDecl("find", <<"xs">>,
              <<SForIn("x", EIdent("xs"),
                       <<SWhile(EBool(TRUE),
                                <<SIf(EBinaryOp(EIdent("x"), "Eq", ENumber(2)),
                                      <<SRepeat(ENumber(3),
                                                <<SReturn(TRUE,
                                                     EBinaryOp(EIdent("x"), "Mul",
                                                               ENumber(10)))>>)>>,
                                      <<>>, FALSE, <<>>),
                                  SBreak>>),
                         PStmt(EIdent("x"))>>),
                PStmt(EStr(<<"e", "n", "d">>))>>),
           SFnDecl("nothing", <<>>, <<SLet("t", ENumber(1))>>),
           SFnDecl("bare", <<>>,
                   <<SReturn(FALSE, ENone), PStmt(EStr(<<"n", "e", "v", "e", "r">>))>>),
           PStmt(ECall(EIdent("find"),
                       <<EArray(<<ENumber(1), ENumber(2), ENumber(3)>>)>>)),
           PStmt(ECall(EIdent("nothing"), <<>>)),
           PStmt(ECall(EIdent("bare"), <<>>)),
           PStmt(ECall(EIdent("find"), <<EArray(<<ENumber(1)>>)>>))>>)


\* let a = [3, 1, 2]; a.push(5); print(a.pop()); a.insert(1, 9)
\* print(a.remove(0)); a.reverse(); print(a); a.sort(); print(a)
\* let m = [[1, 2], [4, 3]]; m[0].push(7); print(m[1].pop()); m[1].sort()
\* print([2, 1].push(3)); fn mk() { return [6, 5] }; print(mk().pop())
\* print(m); print(a.len(), a.has(2), a.join("-")); print(a)
P_methods ==
    Prog(<<SLet("a", EArray(<<ENumber(3), ENumber(1), ENumber(2)>>)),
           SExprStmt(EMethodCall(EIdent("a"), "push", <<ENumber(5)>>)),
           PStmt(EMethodCall(EIdent("a"), "pop", <<>>)),
           SExprStmt(EMethodCall(EIdent("a"), "insert", <<ENumber(1), ENumber(9)>>)),
           PStmt(EMethodCall(EIdent("a"), "remove", <<ENumber(0)>>)),
           SExprStmt(EMethodCall(EIdent("a"), "reverse", <<>>)),
           PStmt(EIdent("a")),
           SExprStmt(EMethodCall(EIdent("a"), "sort", <<>>)),
           PStmt(EIdent("a")),
           SLet("m", EArray(<<EArray(<<ENumber(1), ENumber(2)>>),
                              EArray(<<ENumber(4), ENumber(3)>>)>>)),
           SExprStmt(EMethodCall(EIndex(EIdent("m"), ENumber(0)), "push", <<ENumber(7)>>)),
           PStmt(EMethodCall(EIndex(EIdent("m"), ENumber(1)), "pop", <<>>)),
           SExprStmt(EMethodCall(EIndex(EIdent("m"), ENumber(1)), "sort", <<>>)),
           PStmt(EMethodCall(EArray(<<ENumber(2), ENumber(1)>>), "push", <<ENumber(3)>>)),
           SFnDecl("mk", <<>>, <<SReturn(TRUE, EArray(<<ENumber(6), ENumber(5)>>))>>),
           PStmt(EMethodCall(ECall(EIdent("mk"), <<>>), "pop", <<>>)),
           PStmt(EIdent("m")),
           SExprStmt(ECall(EIdent("print"),
                           <<EMethodCall(EIdent("a"), "len", <<>>),
                             EMethodCall(EIdent("a"), "has", <<ENumber(2)>>),
                             EMethodCall(EIdent("a"), "join", <<EStr(<<"-">>)>>)>>)),
           PStmt(EIdent("a"))>>)


\* let m = [[1, 2], [3]]; let d = {"a": 1}; m[1] = [4]; d["b"] = 2; d["a"] = 5
\* m[-2] = 0; print(m); print(d); m[1][0] = 9
P_idx_plain ==
    Prog(<<SLet("m", EArray(<<EArray(<<ENumber(1), ENumber(2)>>),
                              EArray(<<ENumber(3)>>)>>)),
           SLet("d", EDict(<<[key |-> <<"a">>, value |-> ENumber(1)]>>)),
           SAssign(TIndex(EIdent("m"), ENumber(1)), "Eq", EArray(<<ENumber(4)>>)),
           SAssign(TIndex(EIdent("d"), EStr(<<"b">>)), "Eq", ENumber(2)),
           SAssign(TIndex(EIdent("d"), EStr(<<"a">>)), "Eq", ENumber(5)),
           SAssign(TIndex(EIdent("m"), ENumber(-2)), "Eq", ENumber(0)),
           PStmt(EIdent("m")),
           PStmt(EIdent("d")),
           SAssign(TIndex(EIndex(EIdent("m"), ENumber(1)), ENumber(0)), "Eq",
                   ENumber(9))>>)


\* let m = [[1, 2]]; m[0] += [3]; print(m); m[0][1] += 1
P_idx_compound ==
    Prog(<<SLet("m", EArray(<<EArray(<<ENumber(1), ENumber(2)>>)>>)),
           SAssign(TIndex(EIdent("m"), ENumber(0)), "AddEq", EArray(<<ENumber(3)>>)),
           PStmt(EIdent("m")),
           SAssign(TIndex(EIndex(EIdent("m"), ENumber(0)), ENumber(1)), "AddEq",
                   ENumber(1))>>)


\* let m = [[1, 2]]; m[0][5] += 1
P_idx_compound_oob ==
    Prog(<<SLet("m", EArray(<<EArray(<<ENumber(1), ENumber(2)>>)>>)),
           SAssign(TIndex(EIndex(EIdent("m"), ENumber(0)), ENumber(5)), "AddEq",
                   ENumber(1))>>)


\* let a = [1, 2]; [0][0] = a.pop()
P_idx_side ==
    Prog(<<SLet("a", EArray(<<ENumber(1), ENumber(2)>>)),
           SAssign(TIndex(EArray(<<ENumber(0)>>), ENumber(0)), "Eq",
                   EMethodCall(EIdent("a"), "pop", <<>>))>>)


\* let a = [1, 2, 3]; for x in a { a.push(x); a[0] = 9; print(x) }; print(a)
\* let b = [1, 2]; for y in b { b = []; print(y) }; print(b)
\* let s = "ab"; for c in s { s = s + "x"; print(c) }; print(s)
P_for_snapshot ==
    Prog(<<SLet("a", EArray(<<ENumber(1), ENumber(2), ENumber(3)>>)),
           SForIn("x", EIdent("a"),
                  <<SExprStmt(EMethodCall(EIdent("a"), "push", <<EIdent("x")>>)),
                    SAssign(TIndex(EIdent("a"), ENumber(0)), "Eq", ENumber(9)),
                    PStmt(EIdent("x"))>>),
           PStmt(EIdent("a")),
           SLet("b", EArray(<<ENumber(1), ENumber(2)>>)),
           SForIn("y", EIdent("b"),
                  <<SAssign(TVariable("b"), "Eq", EArray(<<>>)),
                    PStmt(EIdent("y"))>>),
           PStmt(EIdent("b")),
           SLet("s", EStr(<<"a", "b">>)),
           SForIn("c", EIdent("s"),
                  <<SAssign(TVariable("s"), "Eq",
                            EBinaryOp(EIdent("s"), "Add", EStr(<<"x">>))),
                    PStmt(EIdent("c"))>>),
           PStmt(EIdent("s"))>>)


\* let n = 2; repeat n { n = n + 5; print("r") }
\* repeat 2.5 { print("h") }; repeat -1 { print("m") }; repeat -0.5 { print("z") }
\* repeat 0 { print("o") }; print(n)
P_repeat_once ==
    Prog(<<SLet("n", ENumber(2)),
           SRepeat(EIdent("n"),
                   <<SAssign(TVariable("n"), "Eq",
                             EBinaryOp(EIdent("n"), "Add", ENumber(5))),
                     PStmt(EStr(<<"r">>))>>),
           SRepeat(ENumberHalf(2, 1), <<PStmt(EStr(<<"h">>))>>),
           SRepeat(EUnaryOp("Neg", ENumber(1)), <<PStmt(EStr(<<"m">>))>>),
           SRepeat(EUnaryOp("Neg", ENumberHalf(0, 1)), <<PStmt(EStr(<<"z">>))>>),
           SRepeat(ENumber(0), <<PStmt(EStr(<<"o">>))>>),
           PStmt(EIdent("n"))>>)


\* let a = 1; if true { let inner = 5; a = a + inner }
\* for item in [1, 2] { let x = item; a = a + x }
\* let i = 0; while i < 1 { let w = 7; i = i + 1; a += w }
\* repeat 1 { let a = 100; a = a + 1; print(a) }
\* print(a); print(item)
P_block_scope ==
    Prog(<<SLet("a", ENumber(1)),
           SIf(EBool(TRUE),
               <<SLet("inner", ENumber(5)),
                 SAssign(TVariable("a"), "Eq",
                         EBinaryOp(EIdent("a"), "Add", EIdent("inner")))>>,
               <<>>, FALSE, <<>>),
           SForIn("item", EArray(<<ENumber(1), ENumber(2)>>),
                  <<SLet("x", EIdent("item")),
                    SAssign(TVariable("a"), "Eq",
                            EBinaryOp(EIdent("a"), "Add", EIdent("x")))>>),
           SLet("i", ENumber(0)),
           SWhile(EBinaryOp(EIdent("i"), "Lt", ENumber(1)),
                  <<SLet("w", ENumber(7)),
                    SAssign(TVariable("i"), "Eq",
                            EBinaryOp(EIdent("i"), "Add", ENumber(1))),
                    SAssign(TVariable("a"), "AddEq", EIdent("w"))>>),
           SRepeat(ENumber(1),
                   <<SLet("a", ENumber(100)),
                     SAssign(TVariable("a"), "Eq",
                             EBinaryOp(EIdent("a"), "Add", ENumber(1))),
                     PStmt(EIdent("a"))>>),
           PStmt(EIdent("a")),
           PStmt(EIdent("item"))>>)


\* let d = {"a": 1, "a": 2}; print(d); print(d.len()); print(d == d)
\* print({"a": 1, "a": 1} == {"a": 1, "b": 2})
\* let e = {"x": 1, "y": [2]}; let g = {"y": [2], "x": 1}; print(e == g)
\* e["x"] = 5; e["z"] = 3; print(e); print(e == g)
P_dict_dup ==
    Prog(<<SLet("d", EDict(<<[key |-> <<"a">>, value |-> ENumber(1)],
                             [key |-> <<"a">>, value |-> ENumber(2)]>>)),
           PStmt(EIdent("d")),
           PStmt(EMethodCall(EIdent("d"), "len", <<>>)),
           PStmt(EBinaryOp(EIdent("d"), "Eq", EIdent("d"))),
           PStmt(EBinaryOp(EDict(<<[key |-> <<"a">>, value |-> ENumber(1)],
                                   [key |-> <<"a">>, value |-> ENumber(1)]>>),
                           "Eq",
                           EDict(<<[key |-> <<"a">>, value |-> ENumber(1)],
                                   [key |-> <<"b">>, value |-> ENumber(2)]>>))),
           SLet("e", EDict(<<[key |-> <<"x">>, value |-> ENumber(1)],
                             [key |-> <<"y">>, value |-> EArray(<<ENumber(2)>>)]>>)),
           SLet("g", EDict(<<[key |-> <<"y">>, value |-> EArray(<<ENumber(2)>>)],
                             [key |-> <<"x">>, value |-> ENumber(1)]>>)),
           PStmt(EBinaryOp(EIdent("e"), "Eq", EIdent("g"))),
           SAssign(TIndex(EIdent("e"), EStr(<<"x">>)), "Eq", ENumber(5)),
           SAssign(TIndex(EIdent("e"), EStr(<<"z">>)), "Eq", ENumber(3)),
           PStmt(EIdent("e")),
           PStmt(EBinaryOp(EIdent("e"), "Eq", EIdent("g")))>>)


\* print(range(5)); print(range(0)); print(range(-2)); print(range(2, 5))
\* print(range(5, 0)); print(range(3, 3)); print(range(0, 10, 3))
\* print(range(10, 0, -3)); print(range(0, 5, -1)); print(range(2.5))
\* range(1, 9, 0)
P_range_forms ==
    Prog(<<PStmt(ECall(EIdent("range"), <<ENumber(5)>>)),
           PStmt(ECall(EIdent("range"), <<ENumber(0)>>)),
           PStmt(ECall(EIdent("range"), <<EUnaryOp("Neg", ENumber(2))>>)),
           PStmt(ECall(EIdent("range"), <<ENumber(2), ENumber(5)>>)),
           PStmt(ECall(EIdent("range"), <<ENumber(5), ENumber(0)>>)),
           PStmt(ECall(EIdent("range"), <<ENumber(3), ENumber(3)>>)),
           PStmt(ECall(EIdent("range"), <<ENumber(0), ENumber(10), ENumber(3)>>)),
           PStmt(ECall(EIdent("range"), <<ENumber(10), ENumber(0), EUnaryOp("Neg", ENumber(3))>>)),
           PStmt(ECall(EIdent("range"), <<ENumber(0), ENumber(5), EUnaryOp("Neg", ENumber(1))>>)),
           PStmt(ECall(EIdent("range"), <<ENumberHalf(2, 1)>>)),
           CallStmt("range", <<ENumber(1), ENumber(9), ENumber(0)>>)>>)


\* print(len(range(20000))); let r = range(0, -20000, -1); print("after")
P_range_cap ==
    Prog(<<PStmt(ECall(EIdent("len"), <<ECall(EIdent("range"), <<ENumber(20000)>>)>>)),
           SLet("r", ECall(EIdent("range"),
                           <<ENumber(0), EUnaryOp("Neg", ENumber(20000)),
                             EUnaryOp("Neg", ENumber(1))>>)),
           PStmt(EStr(<<"a", "f", "t", "e", "r">>))>>)


\* fn p(x) { print(x); return x }; fn f(a, b) { print("f"); return a - b }
\* print(p(1) - p(2)); print(f(p(7), p(3))); print({"k": p(5), "a": p(6)})
P_order ==
    Prog(<<SFnDecl("p", <<"x">>, <<PStmt(EIdent("x")), SReturn(TRUE, EIdent("x"))>>),
           SFnDecl("f", <<"a", "b">>,
                   <<PStmt(EStr(<<"f">>)),
                     SReturn(TRUE, EBinaryOp(EIdent("a"), "Sub", EIdent("b")))>>),
           PStmt(EBinaryOp(ECall(EIdent("p"), <<ENumber(1)>>), "Sub",
                           ECall(EIdent("p"), <<ENumber(2)>>))),
           PStmt(ECall(EIdent("f"), <<ECall(EIdent("p"), <<ENumber(7)>>),
                                      ECall(EIdent("p"), <<ENumber(3)>>)>>)),
           PStmt(EDict(<<[key |-> <<"k">>, value |-> ECall(EIdent("p"), <<ENumber(5)>>)],
                         [key |-> <<"a">>, value |-> ECall(EIdent("p"), <<ENumber(6)>>)]>>))>>)


\* let a = []; a.push("xy"); let b = a; b; let c = b; a; let d = {"k": a}
\* let e = d; e
P_clone ==
    Prog(<<SLet("a", EArray(<<>>)),
           SExprStmt(EMethodCall(EIdent("a"), "push", <<EStr(<<"x", "y">>)>>)),
           SLet("b", EIdent("a")),
           SExprStmt(EIdent("b")),
           SLet("c", EIdent("b")),
           SExprStmt(EIdent("a")),
           SLet("d", EDict(<<[key |-> <<"k">>, value |-> EIdent("a")]>>)),
           SLet("e", EIdent("d")),
           SExprStmt(EIdent("e"))>>)


\* let y = 1; x = 2; print(y)
P_undeclared_plain ==
    Prog(<<SLet("y", ENumber(1)),
           SAssign(TVariable("x"), "Eq", ENumber(2)),
           PStmt(EIdent("y"))>>)


\* let y = 1; if true { x += 2 }; print(y)
P_undeclared_compound ==
    Prog(<<SLet("y", ENumber(1)),
           SIf(EBool(TRUE), <<SAssign(TVariable("x"), "AddEq", ENumber(2))>>, <<>>, FALSE, <<>>),
           PStmt(EIdent("y"))>>)


\* fn f() { return 1 }; print(f())
\* if true { fn f() { return 2 }; fn g() { return 3 } }; print(f()); print(g())
\* fn mk() { fn h() { return 4 } }; mk(); print(h())
\* print(z()); fn z() { return 5 }; print(z())
P_fn_table ==
    Prog(<<SFnDecl("f", <<>>, <<SReturn(TRUE, ENumber(1))>>),
           PStmt(ECall(EIdent("f"), <<>>)),
           SIf(EBool(TRUE),
               <<SFnDecl("f", <<>>, <<SReturn(TRUE, ENumber(2))>>),
                 SFnDecl("g", <<>>, <<SReturn(TRUE, ENumber(3))>>)>>,
               <<>>, FALSE, <<>>),
           PStmt(ECall(EIdent("f"), <<>>)),
           PStmt(ECall(EIdent("g"), <<>>)),
           SFnDecl("mk", <<>>, <<SFnDecl("h", <<>>, <<SReturn(TRUE, ENumber(4))>>)>>),
           CallStmt("mk", <<>>),
           PStmt(ECall(EIdent("h"), <<>>)),
           PStmt(ECall(EIdent("z"), <<>>)),
           SFnDecl("z", <<>>, <<SReturn(TRUE, ENumber(5))>>),
           PStmt(ECall(EIdent("z"), <<>>))>>)


\* print("a")
\* while true { repeat 2 { for x in [1, 2] { if x == 2 { return "v" }; print(x) } } }
\* print("n")
P_top_return_nested ==
    Prog(<<PStmt(EStr(<<"a">>)),
           SWhile(EBool(TRUE),
                  <<SRepeat(ENumber(2),
                            <<SForIn("x", EArray(<<ENumber(1), ENumber(2)>>),
                                     <<SIf(EBinaryOp(EIdent("x"), "Eq", ENumber(2)),
                                           <<SReturn(TRUE, EStr(<<"v">>))>>,
                                           <<>>, FALSE, <<>>),
                                       PStmt(EIdent("x"))>>)>>)>>),
           PStmt(EStr(<<"n">>))>>)

\* print("a"); let s = "bb"; @
P_bad_char ==
    Prog(<<PStmt(EStr(<<"a">>)), SLet("s", EStr(Chars("b", 2)))>>) \o <<BadChar>>
\* print("a"); let s = "bb"; )
P_bad_token ==
    Prog(<<PStmt(EStr(<<"a">>)), SLet("s", EStr(Chars("b", 2)))>>) \o <<BadToken>>
\* @ ); print("a")
P_bad_both == <<BadChar, BadToken>> \o Prog(<<PStmt(EStr(<<"a">>))>>)

Corpus ==
    {P_while_true, P_while_count, P_repeat, P_for, P_rec_inf, P_rec_64, P_rec_65,
     P_fn_return, P_fn_err, P_top_return, P_fn_break, P_top_continue, P_top_break,
     P_split, P_split_then, P_join, P_range, P_str_repeat, P_str_concat,
     P_arr_concat, P_greet, P_dict, P_array, P_if, P_builtins, P_rand,
     P_shadow,
     P_scope_read,
     P_scope_assign,
     P_alias,
     P_short,
     P_loops,
     P_return,
     P_methods,
     P_idx_plain,
     P_idx_compound,
     P_idx_compound_oob,
     P_idx_side,
     P_for_snapshot,
     P_repeat_once,
     P_block_scope,
     P_dict_dup,
     P_range_forms,
     P_order,
     P_clone,
     P_undeclared_plain,
     P_undeclared_compound,
     P_fn_table,
     P_top_return_nested,
     P_bad_char, P_bad_token, P_bad_both}


\* ======================================================================
\* lib.rs run(source, host, limits), step by step
\* ======================================================================

LimitsChoices ==
    {[max_steps |-> st, max_memory |-> mm] :
        st \in {MaxStepsSmall, MaxStepsLarge}, mm \in {MemSmall, MemLarge}}

HostChoices ==
    {[kind |-> "TestHost", tick_fail |-> k] : k \in 0..MaxTickFail}
    \cup {[kind |-> "CustomHost", tick_fail |-> 0]}

Init ==
    /\ pc = "start"
    /\ source \in Corpus
    /\ limits \in LimitsChoices
    /\ cfg \in HostChoices
    /\ tokens = <<>>
    /\ stmts = <<>>
    /\ host = InitHost
    /\ ctl = CtlIdle
    /\ kont = <<>>
    /\ scopes = <<>>
    /\ functions = EmptyScope
    /\ steps = 0
    /\ call_depth = 0
    /\ rand_state = RandZero
    /\ USED = 0
    /\ LIMIT = UsizeMax
    /\ result = Pending
    /\ hist = InitHist
    /\ suspended = <<>>
    /\ OTHER_USED = 0
    /\ OTHER_LIMIT = UsizeMax
    /\ other_pc = "start"
    /\ previous = NoRun
    /\ instructions = 0
    /\ parser = NoParser

evalVars == <<ctl, kont, scopes, functions, steps, call_depth, rand_state, USED, LIMIT,
              host, hist>>

\* let tokens = lexer::lex(source)?
RunLex ==
    /\ pc = "start"
    /\ IF lex(source).r.ok
       THEN pc' = "lexed" /\ tokens' = lex(source).tokens /\ result' = result
       ELSE pc' = "done" /\ tokens' = tokens /\ result' = lex(source).r
    /\ UNCHANGED <<parser, instructions, stmts, evalVars, runArgs, suspended, otherVars>>

\* let stmts = parser::parse(tokens)?
RunParse ==
    /\ pc = "lexed"
    /\ IF parse(tokens).r.ok
       THEN pc' = "parsed" /\ stmts' = parse(tokens).stmts /\ result' = result
       ELSE pc' = "done" /\ stmts' = stmts /\ result' = parse(tokens).r
    /\ UNCHANGED <<parser, instructions, tokens, evalVars, runArgs, suspended, otherVars>>

\* memory.rs bop_memory_init
bop_memory_init(m, limit) == [m EXCEPT !.used = 0, !.limit = limit]

\* Evaluator::new
EvaluatorNew_keep_rand(m) ==
    [bop_memory_init(m, m.limits.max_memory)
        EXCEPT !.scopes = <<EmptyScope>>, !.functions = EmptyScope, !.steps = 0,
               !.call_depth = 0]
EvaluatorNew(m) ==
    [bop_memory_init(m, m.limits.max_memory)
        EXCEPT !.scopes = <<EmptyScope>>, !.functions = EmptyScope, !.steps = 0,
               !.call_depth = 0, !.rand_state = RandZero]

\* let eval = Evaluator::new(host, limits.clone())
NewEvaluator ==
    /\ pc = "parsed"
    /\ pc' = "new"
    /\ Set(EvaluatorNew(M))
    /\ UNCHANGED <<parser, instructions, tokens, stmts, result, runArgs, suspended, otherVars>>

\* eval.run(&stmts): exec_block(stmts) begins
EvaluatorRun ==
    /\ pc = "new"
    /\ pc' = "running"
    /\ Set(Goto(M, CtlBlock(stmts, 1)))
    /\ UNCHANGED <<parser, instructions, tokens, stmts, result, runArgs, suspended, otherVars>>

\* A step of the running evaluator: the variables take the state m
Step(m) ==
    /\ pc = "running"
    /\ Set(m)
    /\ UNCHANGED <<parser, instructions, pc, tokens, stmts, result, runArgs, suspended, otherVars>>

ExecBlock == ctl.c = "exec_block" /\ Step(ExecBlockStep(M))
ExecStmt == ctl.c = "exec_stmt" /\ Step(ExecStmtStep(M))
WhileIter == ctl.c = "while_iter" /\ Step(WhileIterStep(M))
RepeatIter == ctl.c = "repeat_iter" /\ Step(RepeatIterStep(M))
ForIter == ctl.c = "for_iter" /\ Step(ForIterStep(M))
EvalExpr == ctl.c = "eval" /\ Step(EvalExprStep(M))
CallFunction ==
    /\ ctl.c = "call"
    /\ ~(cfg.kind = "NestingHost" /\ ctl.name = "nest")
    /\ Step(CallFunctionStep(M))
ReturnValue == ctl.c = "val" /\ kont # <<>> /\ Step(ReturnValueStep(M))
ReturnSignal == ctl.c = "sig" /\ kont # <<>> /\ Step(ReturnSignalStep(M))
Unwind == ctl.c = "err" /\ kont # <<>> /\ Step(UnwindStep(M))

\* eval.run returns; run returns its result
RunFinish ==
    /\ pc = "running"
    /\ ctl.c \in {"sig", "err"}
    /\ kont = <<>>
    /\ Set(RunFinishStep(M))
    /\ result' = IF RunResult(M).ctl.c = "err" THEN Err(RunResult(M).ctl.e) ELSE Ok
    /\ pc' = "done"
    /\ UNCHANGED <<parser, instructions, tokens, stmts, runArgs, suspended, otherVars>>

Next ==
    \/ RunLex
    \/ RunParse
    \/ NewEvaluator
    \/ EvaluatorRun
    \/ ExecBlock
    \/ ExecStmt
    \/ WhileIter
    \/ RepeatIter
    \/ ForIter
    \/ EvalExpr
    \/ CallFunction
    \/ ReturnValue
    \/ ReturnSignal
    \/ Unwind
    \/ RunFinish

Spec == Init /\ [][Next]_vars

\* The evaluator runs without pause until run returns
SpecLive == Spec /\ WF_vars(Next)

\* run on the programs of Corpus and on the program whose ranges reach the
\* cap of range
InitRange ==
    /\ pc = "start"
    /\ source \in Corpus \cup {P_range_cap}
    /\ limits \in LimitsChoices
    /\ cfg \in HostChoices
    /\ tokens = <<>>
    /\ stmts = <<>>
    /\ host = InitHost
    /\ ctl = CtlIdle
    /\ kont = <<>>
    /\ scopes = <<>>
    /\ functions = EmptyScope
    /\ steps = 0
    /\ call_depth = 0
    /\ rand_state = RandZero
    /\ USED = 0
    /\ LIMIT = UsizeMax
    /\ result = Pending
    /\ hist = InitHist
    /\ suspended = <<>>
    /\ OTHER_USED = 0
    /\ OTHER_LIMIT = UsizeMax
    /\ other_pc = "start"
    /\ previous = NoRun
    /\ instructions = 0
    /\ parser = NoParser

SpecRange == InitRange /\ [][Next]_vars


\* ======================================================================
\* Executions that overlap in time.  memory.rs keeps USED and LIMIT per
\* thread (thread_local!), and Evaluator::new resets the pair of the thread
\* it runs on.  Two ways to overlap: an execution on another thread, which
\* works on the pair of that thread (OTHER_USED, OTHER_LIMIT); and a host
\* whose call("nest") runs `run` again, on the thread of the caller.
\* ======================================================================

\* let u = "cccccc"; print(u)
P_inner == Prog(<<SLet("u", EStr(Chars("c", 6))), PStmt(EIdent("u"))>>)

\* fn f() { nest() }; let s = "aaaa"; for x in [1] { repeat 1 { f() } }
\* let i = 0; while i < 1 { i += 1 }; let t = "bb"; print(s[9])
P_nest ==
    Prog(<<SFnDecl("f", <<>>, <<CallStmt("nest", <<>>)>>),
           SLet("s", EStr(Chars("a", 4))),
           SForIn("x", EArray(<<ENumber(1)>>),
                  <<SRepeat(ENumber(1), <<CallStmt("f", <<>>)>>)>>),
           SLet("i", ENumber(0)),
           SWhile(EBinaryOp(EIdent("i"), "Lt", ENumber(1)),
                  <<SAssign(TVariable("i"), "AddEq", ENumber(1))>>),
           SLet("t", EStr(Chars("b", 2))),
           PStmt(EIndex(EIdent("s"), ENumber(9)))>>)

NestingChoices ==
    {[kind |-> "NestingHost", tick_fail |-> 0, inner_source |-> src,
      inner_limits |-> [max_steps |-> MaxStepsLarge, max_memory |-> MemSmall]] :
        src \in {P_inner, P_bad_char, P_bad_token}}

InitConc ==
    /\ pc = "start"
    /\ source = P_nest
    /\ limits \in {[max_steps |-> MaxStepsLarge, max_memory |-> MemLarge]}
    /\ cfg \in NestingChoices
    /\ tokens = <<>>
    /\ stmts = <<>>
    /\ host = InitHost
    /\ ctl = CtlIdle
    /\ kont = <<>>
    /\ scopes = <<>>
    /\ functions = EmptyScope
    /\ steps = 0
    /\ call_depth = 0
    /\ rand_state = RandZero
    /\ USED = 0
    /\ LIMIT = UsizeMax
    /\ result = Pending
    /\ hist = InitHist
    /\ suspended = <<>>
    /\ OTHER_USED = 0
    /\ OTHER_LIMIT = UsizeMax
    /\ other_pc = "start"
    /\ previous = NoRun
    /\ instructions = 0
    /\ parser = NoParser

\* host.call("nest", ..) calls run(inner_source, inner_host, inner_limits):
\* the calling execution waits inside call_function
NestedRun ==
    /\ pc = "running"
    /\ ctl.c = "call"
    /\ cfg.kind = "NestingHost"
    /\ ctl.name = "nest"
    /\ suspended' = Append(suspended,
                           [m |-> M, source |-> source, tokens |-> tokens,
                            stmts |-> stmts, used |-> USED, limit |-> LIMIT])
    /\ pc' = "start"
    /\ source' = cfg.inner_source
    /\ limits' = cfg.inner_limits
    /\ cfg' = [kind |-> "TestHost", tick_fail |-> 0]
    /\ tokens' = <<>>
    /\ stmts' = <<>>
    /\ host' = InitHost
    /\ hist' = InitHist
    /\ ctl' = CtlIdle
    /\ kont' = <<>>
    /\ scopes' = <<>>
    /\ functions' = EmptyScope
    /\ steps' = 0
    /\ call_depth' = 0
    /\ rand_state' = RandZero
    /\ result' = Pending
    /\ UNCHANGED <<parser, instructions, USED, LIMIT, otherVars, previous>>

\* The nested run has returned: host.call returns Some(Ok(Value::None)) and
\* call_function of the waiting execution goes on, with the thread-local
\* pair as the nested run left it
NestedReturn ==
    /\ pc = "done"
    /\ suspended # <<>>
    /\ LET w == suspended[Len(suspended)]
           m == [w.m EXCEPT !.used = USED, !.limit = LIMIT, !.host.calls = @ + 1]
       IN /\ Set(Finish(m, OpOk(NoneV), DropBytesSeq(w.m.ctl.args)))
          /\ limits' = w.m.limits
          /\ cfg' = w.m.cfg
          /\ source' = w.source
          /\ tokens' = w.tokens
          /\ stmts' = w.stmts
    /\ suspended' = SubSeq(suspended, 1, Len(suspended) - 1)
    /\ pc' = "running"
    /\ result' = Pending
    /\ UNCHANGED <<parser, instructions, otherVars, previous>>

\* The execution on the other thread: Evaluator::new, then a string is
\* created (new_str), then it is dropped when the run ends
OtherInit ==
    /\ other_pc = "start"
    /\ \E l \in {MemSmall, MemLarge} :
          /\ OTHER_USED' = 0
          /\ OTHER_LIMIT' = l
    /\ other_pc' = "new"
    /\ UNCHANGED <<parser, instructions, pc, tokens, stmts, result, runArgs, evalVars, suspended>>

OtherAlloc ==
    /\ other_pc = "new"
    /\ OTHER_USED' = bop_alloc(OTHER_USED, SizeOfValue)
    /\ other_pc' = "held"
    /\ UNCHANGED <<parser, instructions, OTHER_LIMIT, pc, tokens, stmts, result, runArgs, evalVars, suspended>>

OtherDealloc ==
    /\ other_pc = "held"
    /\ OTHER_USED' = bop_dealloc(OTHER_USED, SizeOfValue)
    /\ other_pc' = "done"
    /\ UNCHANGED <<parser, instructions, OTHER_LIMIT, pc, tokens, stmts, result, runArgs, evalVars, suspended>>

NextConc ==
    \/ Next
    \/ NestedRun
    \/ NestedReturn
    \/ OtherInit
    \/ OtherAlloc
    \/ OtherDealloc

SpecConc == InitConc /\ [][NextConc]_vars


\* ======================================================================
\* run called a second time with the same source and limits and a new host
\* that behaves as the first one did.  Nothing of the first call is handed
\* to the second: tokens, stmts and the Evaluator are locals of run; the
\* thread-local ledger stays as the first call left it until Evaluator::new
\* resets it.
\* ======================================================================

RunAgain ==
    /\ pc = "done"
    /\ ~previous.ran
    /\ previous' = [ran |-> TRUE, prints |-> host.prints, result |-> result]
    /\ pc' = "start"
    /\ tokens' = <<>>
    /\ stmts' = <<>>
    /\ result' = Pending
    /\ host' = InitHost
    /\ hist' = InitHist
    /\ UNCHANGED <<parser, instructions, source, limits, cfg, ctl, kont, scopes, functions, steps, call_depth,
                   rand_state, USED, LIMIT, suspended, otherVars>>

NextTwice ==
    \/ Next
    \/ RunAgain

SpecTwice == Init /\ [][NextTwice]_vars


\* ======================================================================
\* parser::count_instructions, applied to what parse returned
\* ======================================================================

RECURSIVE count_instructions_fn(_)
RECURSIVE count_else_ifs_fn(_)
count_instructions_fn(ss) ==
    IF ss = <<>> THEN 0
    ELSE LET stmt == Head(ss)
         IN 1 + (CASE stmt.kind = "If" ->
                        count_instructions_fn(stmt.body)
                        + count_else_ifs_fn(stmt.else_ifs)
                        + (IF stmt.has_else THEN count_instructions_fn(stmt.else_body)
                           ELSE 0)
                   [] stmt.kind \in {"While", "Repeat", "ForIn", "FnDecl"} ->
                        count_instructions_fn(stmt.body)
                   [] OTHER -> 0)
              + count_instructions_fn(Tail(ss))
count_else_ifs_fn(else_ifs) ==
    IF else_ifs = <<>> THEN 0
    ELSE count_instructions_fn(Head(else_ifs).body) + count_else_ifs_fn(Tail(else_ifs))

RECURSIVE count_instructions(_)
RECURSIVE count_else_ifs(_)
count_instructions(ss) ==
    IF ss = <<>> THEN 0
    ELSE LET stmt == Head(ss)
         IN 1 + (CASE stmt.kind = "If" ->
                        count_instructions(stmt.body)
                        + count_else_ifs(stmt.else_ifs)
                        + (IF stmt.has_else THEN count_instructions(stmt.else_body)
                           ELSE 0)
                   [] stmt.kind \in {"While", "Repeat", "ForIn"} ->
                        count_instructions(stmt.body)
                   [] OTHER -> 0)
              + count_instructions(Tail(ss))
\* `for (_, branch_body) in else_ifs`
count_else_ifs(else_ifs) ==
    IF else_ifs = <<>> THEN 0
    ELSE count_instructions(Head(else_ifs).body) + count_else_ifs(Tail(else_ifs))

\* count_instructions(&stmts) on the statements that parse returned
CountInstructions ==
    /\ pc = "parsed"
    /\ pc' = "counted"
    /\ instructions' = count_instructions(stmts)
    /\ UNCHANGED <<parser, tokens, stmts, result, evalVars, runArgs, suspended, otherVars>>

NextCount ==
    \/ RunLex
    \/ RunParse
    \/ CountInstructions

SpecCount == Init /\ [][NextCount]_vars


\* ======================================================================
\* lexer.rs on the characters of a source text.  A text is a sequence of
\* one-character strings; a token is its kind (the name of the Token
\* variant) and, for Ident, Number and Str, the characters it stands for;
\* a StringInterp carries its parts.
\* ======================================================================

Token(k, s) == [k |-> k, s |-> s]

is_ascii_digit(ch) == ch \in {"0", "1", "2", "3", "4", "5", "6", "7", "8", "9"}

is_ascii_alphabetic(ch) ==
    ch \in {"a", "b", "c", "d", "e", "f", "g", "h", "i", "j", "k", "l", "m",
            "n", "o", "p", "q", "r", "s", "t", "u", "v", "w", "x", "y", "z",
            "A", "B", "C", "D", "E", "F", "G", "H", "I", "J", "K", "L", "M",
            "N", "O", "P", "Q", "R", "S", "T", "U", "V", "W", "X", "Y", "Z"}

is_ascii_alphanumeric(ch) == is_ascii_alphabetic(ch) \/ is_ascii_digit(ch)

\* Lexer::peek at position at (1-based); "" stands for None
PeekChar(chars, at) == IF at <= Len(chars) THEN chars[at] ELSE ""

\* the `while let Some(ch) = self.peek()` loops: the first position at or
\* after at whose character is outside the class
RECURSIVE EndOfBlanks(_, _)
EndOfBlanks(chars, at) ==
    IF PeekChar(chars, at) \in {" ", "\t", "\r"} THEN EndOfBlanks(chars, at + 1) ELSE at
RECURSIVE EndOfDigits(_, _)
EndOfDigits(chars, at) ==
    IF is_ascii_digit(PeekChar(chars, at)) THEN EndOfDigits(chars, at + 1) ELSE at
RECURSIVE EndOfWord(_, _)
EndOfWord(chars, at) ==
    IF is_ascii_alphanumeric(PeekChar(chars, at)) \/ PeekChar(chars, at) = "_"
    THEN EndOfWord(chars, at + 1) ELSE at
RECURSIVE EndOfLine(_, _)
EndOfLine(chars, at) ==
    IF at > Len(chars) \/ chars[at] = "\n" THEN at ELSE EndOfLine(chars, at + 1)

Slice(chars, from, to) == SubSeq(chars, from, to - 1)

\* Lexer::lex_number: digits, then a fraction if `.` is followed by a digit
NumberEnd(chars, at) ==
    LET e == EndOfDigits(chars, at)
    IN IF PeekChar(chars, e) = "." /\ is_ascii_digit(PeekChar(chars, e + 1))
       THEN EndOfDigits(chars, e + 1) ELSE e

\* Lexer::lex_ident_or_keyword: the match on the word
Keyword(s) ==
    CASE s = <<"l", "e", "t">> -> "Let"
      [] s = <<"f", "n">> -> "Fn"
      [] s = <<"r", "e", "t", "u", "r", "n">> -> "Return"
      [] s = <<"i", "f">> -> "If"
      [] s = <<"e", "l", "s", "e">> -> "Else"
      [] s = <<"w", "h", "i", "l", "e">> -> "While"
      [] s = <<"f", "o", "r">> -> "For"
      [] s = <<"i", "n">> -> "In"
      [] s = <<"r", "e", "p", "e", "a", "t">> -> "Repeat"
      [] s = <<"b", "r", "e", "a", "k">> -> "Break"
      [] s = <<"c", "o", "n", "t", "i", "n", "u", "e">> -> "Continue"
      [] s = <<"t", "r", "u", "e">> -> "True"
      [] s = <<"f", "a", "l", "s", "e">> -> "False"
      [] s = <<"n", "o", "n", "e">> -> "None"
      [] OTHER -> "Ident"
lex_ident_or_keyword(s) == IF Keyword(s) = "Ident" THEN Token("Ident", s) ELSE Token(Keyword(s), <<>>)

\* the operator arms of lex_all: the token of ch alone and of ch followed by `=`
OpAlone(ch) ==
    CASE ch = "+" -> "Plus" [] ch = "-" -> "Minus" [] ch = "*" -> "Star"
      [] ch = "/" -> "Slash" [] ch = "%" -> "Percent" [] ch = "=" -> "Eq"
      [] ch = "!" -> "Bang" [] ch = "<" -> "Lt" [] ch = ">" -> "Gt"
OpWithEq(ch) ==
    CASE ch = "+" -> "PlusEq" [] ch = "-" -> "MinusEq" [] ch = "*" -> "StarEq"
      [] ch = "/" -> "SlashEq" [] ch = "%" -> "PercentEq" [] ch = "=" -> "EqEq"
      [] ch = "!" -> "BangEq" [] ch = "<" -> "LtEq" [] ch = ">" -> "GtEq"
Delimiter(ch) ==
    CASE ch = "(" -> "LParen" [] ch = ")" -> "RParen" [] ch = "[" -> "LBracket"
      [] ch = "]" -> "RBracket" [] ch = "{" -> "LBrace" [] ch = "}" -> "RBrace"
      [] ch = "," -> "Comma" [] ch = ":" -> "Colon" [] ch = "." -> "Dot"
      [] ch = ";" -> "Semicolon"

\* the parts of an interpolated string
Literal(s) == [part |-> "Literal", s |-> s]
Variable(s) == [part |-> "Variable", s |-> s]

\* the character an escape sequence stands for
Unescape(ch) == CASE ch = "n" -> "\n" [] ch = "t" -> "\t" [] OTHER -> ch

\* Lexer::lex_string from position at, after the opening quote, with the
\* parts and the literal text read so far
RECURSIVE lex_string(_, _, _, _)
lex_string(chars, at, parts, current) ==
    LET ch == PeekChar(chars, at)
        next == PeekChar(chars, at + 1)
        flushed == IF current # <<>> THEN Append(parts, Literal(current)) ELSE parts
        failed(e) == [ok |-> FALSE, at |-> at, token |-> Token("Eof", <<>>), e |-> e]
    IN IF at > Len(chars) \/ ch = "\n"
       THEN failed(error_with_hint("This string is missing its closing {}",
                                   "Every string needs to start and end with quotes."))
       ELSE IF ch = "\""
       THEN [ok |-> TRUE, at |-> at + 1, e |-> NoError,
             token |-> IF parts = <<>> THEN Token("Str", current)
                       ELSE Token("StringInterp", flushed)]
       ELSE IF ch = "\\"
       THEN IF next \in {"\"", "\\", "n", "t", "{", "}"}
            THEN lex_string(chars, at + 2, parts, Append(current, Unescape(next)))
            ELSE IF at + 1 > Len(chars)
            THEN failed(error("Unexpected end of string after {}"))
            ELSE failed(error("Unknown escape sequence {}"))
       ELSE IF ch = "{" /\ (is_ascii_alphabetic(next) \/ next = "_")
       THEN IF PeekChar(chars, EndOfWord(chars, at + 1)) # "}"
            THEN failed(error_with_hint("Missing {} after {}",
                                        "String interpolation needs a closing {}, like: {}"))
            ELSE lex_string(chars, EndOfWord(chars, at + 1) + 1,
                            Append(flushed,
                                   Variable(Slice(chars, at + 1, EndOfWord(chars, at + 1)))),
                            <<>>)
       ELSE lex_string(chars, at + 1, parts, Append(current, ch))

\* Lexer::lex_all from position at0, with the tokens pushed so far
RECURSIVE lex_all_from(_, _, _)
lex_all_from(chars, at0, toks) ==
    LET at == EndOfBlanks(chars, at0)
        ch == PeekChar(chars, at)
        next == PeekChar(chars, at + 1)
    IN IF at > Len(chars) THEN [r |-> Ok, tokens |-> Append(toks, Token("Eof", <<>>))]
       ELSE IF ch = "\n" THEN lex_all_from(chars, at + 1, Append(toks, Token("Newline", <<>>)))
       ELSE IF ch = "/" /\ next = "/" THEN lex_all_from(chars, EndOfLine(chars, at), toks)
       ELSE IF ch = "\""
            THEN Once(lex_string(chars, at + 1, <<>>, <<>>),
                      LAMBDA str : IF str.ok
                                   THEN lex_all_from(chars, str.at, Append(toks, str.token))
                                   ELSE [r |-> Err(str.e), tokens |-> <<>>])
       ELSE IF is_ascii_digit(ch)
            THEN lex_all_from(chars, NumberEnd(chars, at),
                              Append(toks, Token("Number", Slice(chars, at, NumberEnd(chars, at)))))
       ELSE IF is_ascii_alphabetic(ch) \/ ch = "_"
            THEN lex_all_from(chars, EndOfWord(chars, at),
                              Append(toks, lex_ident_or_keyword(Slice(chars, at, EndOfWord(chars, at)))))
       ELSE IF ch \in {"+", "-", "*", "/", "%", "=", "!", "<", ">"}
            THEN IF next = "="
                 THEN lex_all_from(chars, at + 2, Append(toks, Token(OpWithEq(ch), <<>>)))
                 ELSE lex_all_from(chars, at + 1, Append(toks, Token(OpAlone(ch), <<>>)))
       ELSE IF ch \in {"&", "|"}
            THEN IF next = ch
                 THEN lex_all_from(chars, at + 2,
                                   Append(toks, Token(IF ch = "&" THEN "AmpAmp" ELSE "PipePipe", <<>>)))
                 ELSE [r |-> Err(error_with_hint("Unexpected {}", "Did you mean {}?")),
                       tokens |-> <<>>]
       ELSE IF ch \in {"(", ")", "[", "]", "{", "}", ",", ":", ".", ";"}
            THEN lex_all_from(chars, at + 1, Append(toks, Token(Delimiter(ch), <<>>)))
       ELSE [r |-> Err(LexError), tokens |-> <<>>]

lex_all(chars) == lex_all_from(chars, 1, <<>>)

\* lexer.rs triggers_semicolon, without the closing brace
triggers_semicolon_no_brace(k) ==
    k \in {"Ident", "Number", "Str", "StringInterp", "True", "False", "None",
           "Break", "Continue", "Return", "RParen", "RBracket"}

\* lexer.rs triggers_semicolon
triggers_semicolon(k) ==
    k \in {"Ident", "Number", "Str", "StringInterp", "True", "False", "None",
           "Break", "Continue", "Return", "RParen", "RBracket", "RBrace"}

\* lexer.rs insert_semicolons, with a Semicolon for every Newline
RECURSIVE insert_semicolons_always(_, _)
insert_semicolons_always(raw, out) ==
    IF raw = <<>> THEN out
    ELSE IF Head(raw).k = "Newline"
         THEN insert_semicolons_always(Tail(raw), Append(out, Token("Semicolon", <<>>)))
         ELSE insert_semicolons_always(Tail(raw), Append(out, Head(raw)))

\* lexer.rs insert_semicolons: out is the vector `result` built so far
RECURSIVE insert_semicolons(_, _)
insert_semicolons(raw, out) ==
    IF raw = <<>> THEN out
    ELSE IF Head(raw).k = "Newline"
         THEN IF out # <<>> /\ triggers_semicolon(out[Len(out)].k)
              THEN insert_semicolons(Tail(raw), Append(out, Token("Semicolon", <<>>)))
              ELSE insert_semicolons(Tail(raw), out)
         ELSE insert_semicolons(Tail(raw), Append(out, Head(raw)))

\* lexer::lex on the characters of a text
lex_chars(chars) ==
    Once(lex_all(chars),
         LAMBDA raw : IF raw.r.ok
                      THEN [r |-> Ok, tokens |-> insert_semicolons(raw.tokens, <<>>)]
                      ELSE raw)


\* ======================================================================
\* parser.rs on the tokens of lexer::lex.  A Parser is its tokens, pos
\* (counted from 1) and depth; a parse function returns the Parser it
\* leaves behind together with the node it built, or the error.  Names are
\* the characters of their Ident token.
\* ======================================================================

MAX_PARSE_DEPTH == 128

Parser(toks) == [tokens |-> toks, pos |-> 1, depth |-> 0]

Parsed(p, node) == [ok |-> TRUE, p |-> p, node |-> node, e |-> NoError]
Failed(p, e) == [ok |-> FALSE, p |-> p, node |-> ENone, e |-> e]

\* the `?` operator: F continues from a success, an error is returned
AndThen(r0, F(_)) == CHOOSE y \in {IF r.ok THEN F(r) ELSE r : r \in {r0}} : TRUE

PeekToken(p) == IF p.pos <= Len(p.tokens) THEN p.tokens[p.pos] ELSE Token("Eof", <<>>)
peek(p) == PeekToken(p).k
advance(p) == IF p.pos <= Len(p.tokens) THEN [p EXCEPT !.pos = @ + 1] ELSE p
is_at_end(p) == peek(p) = "Eof"

\* Parser::enter without the comparison with MAX_PARSE_DEPTH
enter_unchecked(p) == Parsed([p EXCEPT !.depth = @ + 1], ENone)

\* Parser::enter
enter(p) ==
    IF p.depth + 1 > MAX_PARSE_DEPTH
    THEN Failed([p EXCEPT !.depth = @ + 1], error("Code is nested too deeply"))
    ELSE Parsed([p EXCEPT !.depth = @ + 1], ENone)
leave(p) == [p EXCEPT !.depth = @ - 1]

expect(p, k) ==
    IF peek(p) = k THEN Parsed(advance(p), ENone)
    ELSE Failed(p, error("Expected {} but found {}"))
expect_ident(p) ==
    IF peek(p) = "Ident" THEN Parsed(advance(p), PeekToken(p).s)
    ELSE Failed(p, error("Expected a name but found {}"))
expect_string_key(p) ==
    IF peek(p) = "Str" THEN Parsed(advance(p), PeekToken(p).s)
    ELSE Failed(p, error("Dict keys must be strings (in quotes)"))

RECURSIVE skip_semicolons(_)
skip_semicolons(p) == IF peek(p) = "Semicolon" THEN skip_semicolons(advance(p)) ELSE p

\* the f64 of a Number token (the texts spell whole numbers and halves)
NumberOf(s) ==
    LET whole == EndOfDigits(s, 1)
    IN IF whole > Len(s) THEN ENumber(DigitsValue(s, 0))
       ELSE ENumberHalf(DigitsValue(Slice(s, 1, whole), 0),
                        IF PeekChar(s, whole + 1) = "5" THEN 1 ELSE 0)

\* the operators of parse_or, parse_and, parse_equality, parse_comparison,
\* parse_addition and parse_multiply, in this order
LevelOps(level) ==
    CASE level = 1 -> {"PipePipe"}
      [] level = 2 -> {"AmpAmp"}
      [] level = 3 -> {"EqEq", "BangEq"}
      [] level = 4 -> {"Lt", "Gt", "LtEq", "GtEq"}
      [] level = 5 -> {"Plus", "Minus"}
      [] level = 6 -> {"Star", "Slash", "Percent"}
BinOpOf(k) ==
    CASE k = "PipePipe" -> "Or" [] k = "AmpAmp" -> "And" [] k = "EqEq" -> "Eq"
      [] k = "BangEq" -> "NotEq" [] k = "Lt" -> "Lt" [] k = "Gt" -> "Gt"
      [] k = "LtEq" -> "LtEq" [] k = "GtEq" -> "GtEq" [] k = "Plus" -> "Add"
      [] k = "Minus" -> "Sub" [] k = "Star" -> "Mul" [] k = "Slash" -> "Div"
      [] k = "Percent" -> "Mod"
AssignOpOf(k) ==
    CASE k = "Eq" -> "Eq" [] k = "PlusEq" -> "AddEq" [] k = "MinusEq" -> "SubEq"
      [] k = "StarEq" -> "MulEq" [] k = "SlashEq" -> "DivEq" [] k = "PercentEq" -> "ModEq"

\* parser.rs expr_to_assign_target
expr_to_assign_target(p, expr) ==
    CASE expr.kind = "Ident" -> Parsed(p, TVariable(expr.name))
      [] expr.kind = "Index" -> Parsed(p, TIndex(expr.object, expr.index))
      [] OTHER -> Failed(p, error("You can only assign to a variable or an index (like arr[0])"))

RECURSIVE parse_statements(_, _, _)
RECURSIVE parse_block(_)
RECURSIVE parse_statement(_)
RECURSIVE parse_else_chain(_, _)
RECURSIVE parse_params(_, _)
RECURSIVE parse_binary(_, _)
RECURSIVE parse_binary_rest(_, _)
RECURSIVE parse_operand(_, _)
RECURSIVE parse_unary(_)
RECURSIVE parse_postfix_rest(_)
RECURSIVE parse_args(_)
RECURSIVE parse_args_rest(_, _)
RECURSIVE parse_primary(_)
RECURSIVE parse_elements_rest(_, _)
RECURSIVE parse_entry(_, _)
RECURSIVE parse_entries_rest(_, _)

parse_expr(p) == parse_binary(p, 1)

\* the loop of parse_program and parse_block: statements up to a closing token
parse_statements(p, stmts0, closing) ==
    IF peek(p) \in closing THEN Parsed(p, stmts0)
    ELSE AndThen(parse_statement(p),
                 LAMBDA s : parse_statements(skip_semicolons(s.p), Append(stmts0, s.node),
                                             closing))

parse_program(p) == parse_statements(skip_semicolons(p), <<>>, {"Eof"})

parse_block(p) ==
    AndThen(enter(p), LAMBDA a :
    AndThen(expect(a.p, "LBrace"), LAMBDA b :
    AndThen(parse_statements(skip_semicolons(b.p), <<>>, {"RBrace", "Eof"}), LAMBDA c :
    AndThen(expect(c.p, "RBrace"), LAMBDA d :
    Parsed(leave(d.p), c.node)))))

parse_let(p) ==
    AndThen(expect_ident(advance(p)), LAMBDA name :
    AndThen(expect(name.p, "Eq"), LAMBDA eq :
    AndThen(parse_expr(eq.p), LAMBDA value :
    Parsed(value.p, SLet(name.node, value.node)))))

\* the `while matches!(self.peek(), Token::Else)` loop of parse_if_stmt
parse_else_chain(p, else_ifs) ==
    IF peek(p) # "Else"
    THEN Parsed(p, [else_ifs |-> else_ifs, has_else |-> FALSE, else_body |-> <<>>])
    ELSE IF peek(advance(p)) = "If"
    THEN AndThen(parse_expr(advance(advance(p))), LAMBDA cond :
         AndThen(parse_block(cond.p), LAMBDA block :
         parse_else_chain(block.p,
                          Append(else_ifs, [cond |-> cond.node, body |-> block.node]))))
    ELSE AndThen(parse_block(advance(p)), LAMBDA block :
         Parsed(block.p, [else_ifs |-> else_ifs, has_else |-> TRUE,
                          else_body |-> block.node]))

parse_if_stmt(p) ==
    AndThen(parse_expr(advance(p)), LAMBDA condition :
    AndThen(parse_block(condition.p), LAMBDA body :
    AndThen(parse_else_chain(body.p, <<>>), LAMBDA rest :
    Parsed(rest.p, SIf(condition.node, body.node, rest.node.else_ifs,
                       rest.node.has_else, rest.node.else_body)))))

parse_while(p) ==
    AndThen(parse_expr(advance(p)), LAMBDA condition :
    AndThen(parse_block(condition.p), LAMBDA body :
    Parsed(body.p, SWhile(condition.node, body.node))))

parse_for(p) ==
    AndThen(expect_ident(advance(p)), LAMBDA var :
    AndThen(expect(var.p, "In"), LAMBDA in :
    AndThen(parse_expr(in.p), LAMBDA iterable :
    AndThen(parse_block(iterable.p), LAMBDA body :
    Parsed(body.p, SForIn(var.node, iterable.node, body.node))))))

parse_repeat(p) ==
    AndThen(parse_expr(advance(p)), LAMBDA count :
    AndThen(parse_block(count.p), LAMBDA body :
    Parsed(body.p, SRepeat(count.node, body.node))))

\* the `while matches!(self.peek(), Token::Comma)` loop of parse_fn_decl
parse_params(p, params) ==
    IF peek(p) # "Comma" THEN Parsed(p, params)
    ELSE AndThen(expect_ident(advance(p)),
                 LAMBDA name : parse_params(name.p, Append(params, name.node)))

parse_fn_decl(p) ==
    AndThen(expect_ident(advance(p)), LAMBDA name :
    AndThen(expect(name.p, "LParen"), LAMBDA open :
    AndThen(IF peek(open.p) = "RParen" THEN Parsed(open.p, <<>>)
            ELSE AndThen(expect_ident(open.p),
                         LAMBDA first : parse_params(first.p, <<first.node>>)),
            LAMBDA params :
    AndThen(expect(params.p, "RParen"), LAMBDA close :
    AndThen(parse_block(close.p), LAMBDA body :
    Parsed(body.p, SFnDecl(name.node, params.node, body.node)))))))

parse_return(p) ==
    IF peek(advance(p)) \in {"Semicolon", "RBrace", "Eof"}
    THEN Parsed(advance(p), SReturn(FALSE, ENone))
    ELSE AndThen(parse_expr(advance(p)),
                 LAMBDA value : Parsed(value.p, SReturn(TRUE, value.node)))

parse_expr_or_assign(p) ==
    AndThen(parse_expr(p), LAMBDA expr :
    IF peek(expr.p) \in {"Eq", "PlusEq", "MinusEq", "StarEq", "SlashEq", "PercentEq"}
    THEN AndThen(expr_to_assign_target(advance(expr.p), expr.node), LAMBDA target :
         AndThen(parse_expr(target.p), LAMBDA value :
         Parsed(value.p, SAssign(target.node, AssignOpOf(peek(expr.p)), value.node))))
    ELSE Parsed(expr.p, SExprStmt(expr.node)))

parse_statement(p) ==
    CASE peek(p) = "Let" -> parse_let(p)
      [] peek(p) = "If" -> parse_if_stmt(p)
      [] peek(p) = "While" -> parse_while(p)
      [] peek(p) = "For" -> parse_for(p)
      [] peek(p) = "Repeat" -> parse_repeat(p)
      [] peek(p) = "Fn" -> parse_fn_decl(p)
      [] peek(p) = "Return" -> parse_return(p)
      [] peek(p) = "Break" -> Parsed(advance(p), SBreak)
      [] peek(p) = "Continue" -> Parsed(advance(p), SContinue)
      [] OTHER -> parse_expr_or_assign(p)

\* parse_or .. parse_multiply: an operand of the next level, then the loop
\* `while matches!(self.peek(), <operators of the level>)`
parse_operand(p, level) == IF level = 6 THEN parse_unary(p) ELSE parse_binary(p, level + 1)
parse_binary_rest(left, level) ==
    IF peek(left.p) \notin LevelOps(level) THEN left
    ELSE AndThen(parse_operand(advance(left.p), level), LAMBDA right :
         parse_binary_rest(Parsed(right.p, EBinaryOp(left.node, BinOpOf(peek(left.p)),
                                                     right.node)),
                           level))
parse_binary(p, level) ==
    AndThen(parse_operand(p, level), LAMBDA left : parse_binary_rest(left, level))

\* the loop of parse_postfix
parse_postfix_rest(expr) ==
    CASE peek(expr.p) = "LParen" ->
            AndThen(parse_args(advance(expr.p)), LAMBDA args :
            AndThen(expect(args.p, "RParen"), LAMBDA close :
            parse_postfix_rest(Parsed(close.p, ECall(expr.node, args.node)))))
      [] peek(expr.p) = "LBracket" ->
            AndThen(parse_expr(advance(expr.p)), LAMBDA index :
            AndThen(expect(index.p, "RBracket"), LAMBDA close :
            parse_postfix_rest(Parsed(close.p, EIndex(expr.node, index.node)))))
      [] peek(expr.p) = "Dot" ->
            AndThen(expect_ident(advance(expr.p)), LAMBDA method :
            AndThen(expect(method.p, "LParen"), LAMBDA open :
            AndThen(parse_args(open.p), LAMBDA args :
            AndThen(expect(args.p, "RParen"), LAMBDA close :
            parse_postfix_rest(Parsed(close.p, EMethodCall(expr.node, method.node,
                                                           args.node)))))))
      [] OTHER -> expr

parse_postfix(p) == AndThen(parse_primary(p), LAMBDA expr : parse_postfix_rest(expr))

parse_unary(p) ==
    AndThen(enter(p), LAMBDA a :
    AndThen(IF peek(a.p) \in {"Bang", "Minus"}
            THEN AndThen(parse_unary(advance(a.p)), LAMBDA expr :
                 Parsed(expr.p, EUnaryOp(IF peek(a.p) = "Bang" THEN "Not" ELSE "Neg",
                                         expr.node)))
            ELSE parse_postfix(a.p),
            LAMBDA result0 : Parsed(leave(result0.p), result0.node)))

parse_args_rest(p, args) ==
    IF peek(p) # "Comma" THEN Parsed(p, args)
    ELSE AndThen(parse_expr(advance(p)),
                 LAMBDA arg : parse_args_rest(arg.p, Append(args, arg.node)))
parse_args(p) ==
    IF peek(p) = "RParen" THEN Parsed(p, <<>>)
    ELSE AndThen(parse_expr(p), LAMBDA arg : parse_args_rest(arg.p, <<arg.node>>))

parse_elements_rest(p, elements) ==
    IF peek(p) # "Comma" \/ peek(advance(p)) = "RBracket"
    THEN Parsed(IF peek(p) = "Comma" THEN advance(p) ELSE p, elements)
    ELSE AndThen(parse_expr(advance(p)),
                 LAMBDA el : parse_elements_rest(el.p, Append(elements, el.node)))
parse_array_literal(p) ==
    AndThen(IF peek(advance(p)) = "RBracket" THEN Parsed(advance(p), <<>>)
            ELSE AndThen(parse_expr(advance(p)),
                         LAMBDA el : parse_elements_rest(el.p, <<el.node>>)),
            LAMBDA elements :
    AndThen(expect(elements.p, "RBracket"), LAMBDA close :
    Parsed(close.p, EArray(elements.node))))

\* key, colon and value of one entry, pushed onto entries
parse_entry(p, entries) ==
    AndThen(expect_string_key(p), LAMBDA key :
    AndThen(expect(key.p, "Colon"), LAMBDA colon :
    AndThen(parse_expr(colon.p), LAMBDA value :
    Parsed(value.p, Append(entries, [key |-> key.node, value |-> value.node])))))
parse_entries_rest(p, entries) ==
    IF peek(p) # "Comma" \/ peek(advance(p)) = "RBrace"
    THEN Parsed(IF peek(p) = "Comma" THEN advance(p) ELSE p, entries)
    ELSE AndThen(parse_entry(advance(p), entries),
                 LAMBDA more : parse_entries_rest(more.p, more.node))
parse_dict_literal(p) ==
    AndThen(IF peek(advance(p)) = "RBrace" THEN Parsed(advance(p), <<>>)
            ELSE AndThen(parse_entry(advance(p), <<>>),
                         LAMBDA first : parse_entries_rest(first.p, first.node)),
            LAMBDA entries :
    AndThen(expect(entries.p, "RBrace"), LAMBDA close :
    Parsed(close.p, EDict(entries.node))))

parse_if_expr(p) ==
    AndThen(parse_expr(advance(p)), LAMBDA condition :
    AndThen(expect(condition.p, "LBrace"), LAMBDA o1 :
    AndThen(parse_expr(o1.p), LAMBDA then_expr :
    AndThen(expect(then_expr.p, "RBrace"), LAMBDA c1 :
    AndThen(expect(c1.p, "Else"), LAMBDA else0 :
    AndThen(expect(else0.p, "LBrace"), LAMBDA o2 :
    AndThen(parse_expr(o2.p), LAMBDA else_expr :
    AndThen(expect(else_expr.p, "RBrace"), LAMBDA c2 :
    Parsed(c2.p, EIfExpr(condition.node, then_expr.node, else_expr.node))))))))))

parse_primary(p) ==
    CASE peek(p) = "Number" -> Parsed(advance(p), NumberOf(PeekToken(p).s))
      [] peek(p) = "Str" -> Parsed(advance(p), EStr(PeekToken(p).s))
      [] peek(p) = "StringInterp" ->
            Parsed(advance(p), [kind |-> "StringInterp", parts |-> PeekToken(p).s])
      [] peek(p) = "True" -> Parsed(advance(p), EBool(TRUE))
      [] peek(p) = "False" -> Parsed(advance(p), EBool(FALSE))
      [] peek(p) = "None" -> Parsed(advance(p), ENone)
      [] peek(p) = "Ident" -> Parsed(advance(p), EIdent(PeekToken(p).s))
      [] peek(p) = "LParen" ->
            AndThen(enter(p), LAMBDA a :
            AndThen(parse_expr(advance(a.p)), LAMBDA expr :
            AndThen(expect(expr.p, "RParen"), LAMBDA close :
            Parsed(leave(close.p), expr.node))))
      [] peek(p) = "LBracket" -> parse_array_literal(p)
      [] peek(p) = "LBrace" -> parse_dict_literal(p)
      [] peek(p) = "If" -> parse_if_expr(p)
      [] OTHER -> Failed(p, ParseError)

\* parser::parse on the tokens of a text
parse_tokens(toks) == parse_program(Parser(toks))


\* ======================================================================
\* lexer::lex, parser::parse and count_instructions on the characters of a
\* text, and on the same text with its layout changed in one place
\* ======================================================================

\* let x = 1 - 2
T_let ==
    <<"l", "e", "t", " ", "x", " ", "=", " ", "1", " ", "-", " ", "2">>

\* repeat 7 { print(1) }
T_repeat ==
    <<"r", "e", "p", "e", "a", "t", " ", "7", " ", "{", " ", "p", "r", "i", "n", "t", "(",
      "1", ")", " ", "}">>

\* if a { b() } else { c() }
T_if ==
    <<"i", "f", " ", "a", " ", "{", " ", "b", "(", ")", " ", "}", " ", "e", "l", "s", "e",
      " ", "{", " ", "c", "(", ")", " ", "}">>

\* while a {\nreturn 1 }
T_while ==
    <<"w", "h", "i", "l", "e", " ", "a", " ", "{", "\n", "r", "e", "t", "u", "r", "n",
      " ", "1", " ", "}">>

\* a = [1, 2]; b(a)
T_array ==
    <<"a", " ", "=", " ", "[", "1", ",", " ", "2", "]", ";", " ", "b", "(", "a", ")">>

\* a()\nb() // c\nd = 3
T_lines ==
    <<"a", "(", ")", "\n", "b", "(", ")", " ", "/", "/", " ", "c", "\n", "d", " ", "=",
      " ", "3">>

FormatTexts == {T_let, T_repeat, T_if, T_while, T_array, T_lines}

\* the number of layout changes made to a text
MaxEdits == 1

\* a blank, a tab, a line break, and a comment with the line break that ends it
LayoutItems == {<<" ">>, <<"\t">>, <<"\n">>, <<"/", "/", "c", "\n">>}

\* the tokens of lex_all without the closing Eof
RawTokens(chars) ==
    Once(lex_all(chars),
         LAMBDA raw : IF raw.r.ok THEN SubSeq(raw.tokens, 1, Len(raw.tokens) - 1) ELSE <<>>)

\* position at (before the character chars[at]) lies between two tokens,
\* before the first or after the last: cutting the text there cuts no token
BetweenTokens(chars, at) ==
    /\ at \in 1..(Len(chars) + 1)
    /\ lex_all(chars).r.ok
    /\ RawTokens(SubSeq(chars, 1, at - 1)) \o RawTokens(SubSeq(chars, at, Len(chars)))
           = RawTokens(chars)

InsertAt(chars, at, item) ==
    SubSeq(chars, 1, at - 1) \o item \o SubSeq(chars, at, Len(chars))
RemoveAt(chars, at, n) ==
    SubSeq(chars, 1, at - 1) \o SubSeq(chars, at + n, Len(chars))

NoEdit ==
    [ran |-> FALSE, edits |-> 0, kind |-> "none", at |-> 0, item |-> <<>>, text |-> <<>>,
     ok |-> FALSE, instructions |-> 0]

InitFormat ==
    /\ pc = "start"
    /\ source \in FormatTexts
    /\ limits = [max_steps |-> MaxStepsLarge, max_memory |-> MemLarge]
    /\ cfg = [kind |-> "TestHost", tick_fail |-> 0]
    /\ tokens = <<>>
    /\ stmts = <<>>
    /\ host = InitHost
    /\ ctl = CtlIdle
    /\ kont = <<>>
    /\ scopes = <<>>
    /\ functions = EmptyScope
    /\ steps = 0
    /\ call_depth = 0
    /\ rand_state = RandZero
    /\ USED = 0
    /\ LIMIT = UsizeMax
    /\ result = Pending
    /\ hist = InitHist
    /\ suspended = <<>>
    /\ OTHER_USED = 0
    /\ OTHER_LIMIT = UsizeMax
    /\ other_pc = "start"
    /\ previous = NoEdit
    /\ instructions = 0
    /\ parser = NoParser

\* let tokens = lexer::lex(source)?
LexText ==
    /\ pc = "start"
    /\ LET out == lex_chars(source)
       IN IF out.r.ok
          THEN pc' = "lexed" /\ tokens' = out.tokens /\ result' = result
          ELSE pc' = "done" /\ tokens' = tokens /\ result' = out.r
    /\ UNCHANGED <<parser, instructions, stmts, evalVars, runArgs, suspended, otherVars>>

\* let stmts = parser::parse(tokens)?
ParseTokens ==
    /\ pc = "lexed"
    /\ LET out == parse_tokens(tokens)
       IN IF out.ok
          THEN pc' = "parsed" /\ stmts' = out.node /\ result' = result
          ELSE pc' = "done" /\ stmts' = stmts /\ result' = Err(out.e)
    /\ UNCHANGED <<parser, instructions, tokens, evalVars, runArgs, suspended, otherVars>>

\* what the finished pass over the text reported, and the change made to it
Edited(kind, at, item) ==
    [ran |-> TRUE, edits |-> previous.edits + 1, kind |-> kind, at |-> at, item |-> item,
     text |-> source, ok |-> pc = "counted", instructions |-> instructions]

Restart ==
    /\ pc' = "start"
    /\ tokens' = <<>>
    /\ stmts' = <<>>
    /\ result' = Pending
    /\ instructions' = 0
    /\ parser' = NoParser
    /\ UNCHANGED <<limits, cfg, evalVars, suspended, otherVars>>

\* the text is given again with one layout item added between two tokens
AddLayout ==
    /\ pc \in {"counted", "done"}
    /\ previous.edits < MaxEdits
    /\ \E at \in 1..(Len(source) + 1), item \in LayoutItems :
          /\ BetweenTokens(source, at)
          /\ source' = InsertAt(source, at, item)
          /\ previous' = Edited("add", at, item)
    /\ Restart

\* the text is given again with one blank, tab or line break removed from
\* between two tokens that stay apart without it
RemoveLayout ==
    /\ pc \in {"counted", "done"}
    /\ previous.edits < MaxEdits
    /\ \E at \in 1..Len(source) :
          /\ source[at] \in {" ", "\t", "\n"}
          /\ BetweenTokens(source, at)
          /\ BetweenTokens(RemoveAt(source, at, 1), at)
          /\ source' = RemoveAt(source, at, 1)
          /\ previous' = Edited("remove", at, <<source[at]>>)
    /\ Restart

NextFormat ==
    \/ LexText
    \/ ParseTokens
    \/ CountInstructions
    \/ AddLayout
    \/ RemoveLayout

SpecFormat == InitFormat /\ [][NextFormat]_vars


\* ======================================================================
\* parser.rs step by step.  The Parser (tokens, pos, depth) is run as a
\* machine: ctl says which parse function is being entered (call), what a
\* parse function has returned (ret) or the error that `?` hands up
\* (fail); stack holds, innermost last, the parse functions that wait for
\* the function they called, each with its locals.
\* ======================================================================

PCall(p, f, a) == [p EXCEPT !.ctl = [c |-> "call", f |-> f, a |-> a]]
PRet(p, node) == [p EXCEPT !.ctl = [c |-> "ret", node |-> node]]
PFail(p, e) == [p EXCEPT !.ctl = [c |-> "fail", e |-> e]]
PPush(p, frame) == [p EXCEPT !.stack = Append(@, frame)]
PPop(p) == [p EXCEPT !.stack = SubSeq(@, 1, Len(@) - 1)]

\* the `?` operator: F continues from a success, an error ends the parse
OrFail(r0, F(_)) == CHOOSE y \in {IF r.ok THEN F(r) ELSE PFail(r.p, r.e) : r \in {r0}} : TRUE

\* Parser::new(tokens) about to run parse_program
ParserNew(toks) ==
    [tokens |-> toks, pos |-> 1, depth |-> 0, ctl |-> [c |-> "call", f |-> "parse_program", a |-> 0],
     stack |-> <<>>]

\* the loop head of parse_program and parse_block, after skip_semicolons
StatementsLoop(p, stmts0, closing) ==
    IF peek(p) \in closing THEN PRet(p, stmts0)
    ELSE PCall(PPush(p, [k |-> "statements", stmts |-> stmts0, closing |-> closing]),
               "parse_statement", 0)

\* the loop head of parse_if_stmt: `while matches!(self.peek(), Token::Else)`
ElseLoop(p, fr, else_ifs) ==
    IF peek(p) # "Else"
    THEN PRet(p, SIf(fr.condition, fr.body, else_ifs, FALSE, <<>>))
    ELSE IF peek(advance(p)) = "If"
    THEN PCall(PPush(advance(advance(p)),
                     [k |-> "else_if_cond", condition |-> fr.condition, body |-> fr.body,
                      else_ifs |-> else_ifs]),
               "parse_expr", 0)
    ELSE PCall(PPush(advance(p),
                     [k |-> "else_body", condition |-> fr.condition, body |-> fr.body,
                      else_ifs |-> else_ifs]),
               "parse_block", 0)

\* the loop head of parse_or .. parse_multiply with left in hand
BinaryLoop(p, level, left) ==
    IF peek(p) \notin LevelOps(level) THEN PRet(p, left)
    ELSE PCall(PPush(advance(p), [k |-> "binary_right", level |-> level, left |-> left,
                                  op |-> BinOpOf(peek(p))]),
               IF level = 6 THEN "parse_unary" ELSE "parse_binary", level + 1)

\* the loop head of parse_postfix with expr in hand
PostfixLoop(p, expr) ==
    CASE peek(p) = "LParen" ->
            PCall(PPush(advance(p), [k |-> "call_args", expr |-> expr]), "parse_args", 0)
      [] peek(p) = "LBracket" ->
            PCall(PPush(advance(p), [k |-> "index", expr |-> expr]), "parse_expr", 0)
      [] peek(p) = "Dot" ->
            OrFail(expect_ident(advance(p)), LAMBDA method :
            OrFail(expect(method.p, "LParen"), LAMBDA open :
            PCall(PPush(open.p, [k |-> "method_args", expr |-> expr, method |-> method.node]),
                  "parse_args", 0)))
      [] OTHER -> PRet(p, expr)

\* key and colon of a dict entry, then its value
EntryStart(p, entries) ==
    OrFail(expect_string_key(p), LAMBDA key :
    OrFail(expect(key.p, "Colon"), LAMBDA colon :
    PCall(PPush(colon.p, [k |-> "entry_value", entries |-> entries, key |-> key.node]),
          "parse_expr", 0)))

\* a parse function is entered
ParserEnter(p) ==
    LET f == p.ctl.f
    IN CASE f = "parse_program" -> StatementsLoop(skip_semicolons(p), <<>>, {"Eof"})
         [] f = "parse_block" ->
               OrFail(enter(p), LAMBDA a :
               OrFail(expect(a.p, "LBrace"), LAMBDA b :
               StatementsLoop(skip_semicolons(PPush(b.p, [k |-> "block"])), <<>>,
                              {"RBrace", "Eof"})))
         [] f = "parse_statement" ->
               CASE peek(p) = "Let" ->
                       OrFail(expect_ident(advance(p)), LAMBDA name :
                       OrFail(expect(name.p, "Eq"), LAMBDA eq :
                       PCall(PPush(eq.p, [k |-> "let", name |-> name.node]), "parse_expr", 0)))
                 [] peek(p) = "If" ->
                       PCall(PPush(advance(p), [k |-> "if_cond"]), "parse_expr", 0)
                 [] peek(p) = "While" ->
                       PCall(PPush(advance(p), [k |-> "while_cond"]), "parse_expr", 0)
                 [] peek(p) = "For" ->
                       OrFail(expect_ident(advance(p)), LAMBDA var :
                       OrFail(expect(var.p, "In"), LAMBDA in :
                       PCall(PPush(in.p, [k |-> "for_iterable", var |-> var.node]),
                             "parse_expr", 0)))
                 [] peek(p) = "Repeat" ->
                       PCall(PPush(advance(p), [k |-> "repeat_count"]), "parse_expr", 0)
                 [] peek(p) = "Fn" ->
                       OrFail(expect_ident(advance(p)), LAMBDA name :
                       OrFail(expect(name.p, "LParen"), LAMBDA open :
                       OrFail(IF peek(open.p) = "RParen" THEN Parsed(open.p, <<>>)
                              ELSE AndThen(expect_ident(open.p),
                                           LAMBDA first : parse_params(first.p, <<first.node>>)),
                              LAMBDA params :
                       OrFail(expect(params.p, "RParen"), LAMBDA close :
                       PCall(PPush(close.p, [k |-> "fn_body", name |-> name.node,
                                             params |-> params.node]),
                             "parse_block", 0)))))
                 [] peek(p) = "Return" ->
                       IF peek(advance(p)) \in {"Semicolon", "RBrace", "Eof"}
                       THEN PRet(advance(p), SReturn(FALSE, ENone))
                       ELSE PCall(PPush(advance(p), [k |-> "return_value"]), "parse_expr", 0)
                 [] peek(p) = "Break" -> PRet(advance(p), SBreak)
                 [] peek(p) = "Continue" -> PRet(advance(p), SContinue)
                 [] OTHER -> PCall(PPush(p, [k |-> "expr_or_assign"]), "parse_expr", 0)
         [] f = "parse_expr" -> PCall(p, "parse_binary", 1)
         [] f = "parse_binary" ->
               PCall(PPush(p, [k |-> "binary_left", level |-> p.ctl.a]),
                     IF p.ctl.a = 6 THEN "parse_unary" ELSE "parse_binary", p.ctl.a + 1)
         [] f = "parse_unary" ->
               OrFail(enter(p), LAMBDA a :
               IF peek(a.p) \in {"Bang", "Minus"}
               THEN PCall(PPush(advance(a.p),
                                [k |-> "unary_operand",
                                 op |-> IF peek(a.p) = "Bang" THEN "Not" ELSE "Neg"]),
                          "parse_unary", 0)
               ELSE PCall(PPush(a.p, [k |-> "unary_postfix"]), "parse_postfix", 0))
         [] f = "parse_postfix" -> PCall(PPush(p, [k |-> "postfix_primary"]), "parse_primary", 0)
         [] f = "parse_args" ->
               IF peek(p) = "RParen" THEN PRet(p, <<>>)
               ELSE PCall(PPush(p, [k |-> "args", args |-> <<>>]), "parse_expr", 0)
         [] f = "parse_primary" ->
               CASE peek(p) = "Number" -> PRet(advance(p), NumberOf(PeekToken(p).s))
                 [] peek(p) = "Str" -> PRet(advance(p), EStr(PeekToken(p).s))
                 [] peek(p) = "StringInterp" ->
                       PRet(advance(p), [kind |-> "StringInterp", parts |-> PeekToken(p).s])
                 [] peek(p) = "True" -> PRet(advance(p), EBool(TRUE))
                 [] peek(p) = "False" -> PRet(advance(p), EBool(FALSE))
                 [] peek(p) = "None" -> PRet(advance(p), ENone)
                 [] peek(p) = "Ident" -> PRet(advance(p), EIdent(PeekToken(p).s))
                 [] peek(p) = "LParen" ->
                       OrFail(enter(p), LAMBDA a :
                       PCall(PPush(advance(a.p), [k |-> "paren"]), "parse_expr", 0))
                 [] peek(p) = "LBracket" ->
                       IF peek(advance(p)) = "RBracket"
                       THEN PRet(advance(advance(p)), EArray(<<>>))
                       ELSE PCall(PPush(advance(p), [k |-> "elements", elements |-> <<>>]),
                                  "parse_expr", 0)
                 [] peek(p) = "LBrace" ->
                       IF peek(advance(p)) = "RBrace"
                       THEN PRet(advance(advance(p)), EDict(<<>>))
                       ELSE EntryStart(advance(p), <<>>)
                 [] peek(p) = "If" ->
                       PCall(PPush(advance(p), [k |-> "if_expr_cond"]), "parse_expr", 0)
                 [] OTHER -> PFail(p, ParseError)

\* the called parse function has returned node to the function on top of
\* the stack (fr, already taken off)
ParserResume(p, fr, node) ==
    CASE fr.k = "statements" ->
            StatementsLoop(skip_semicolons(p), Append(fr.stmts, node), fr.closing)
      [] fr.k = "block" ->
            OrFail(expect(p, "RBrace"), LAMBDA close : PRet(leave(close.p), node))
      [] fr.k = "let" -> PRet(p, SLet(fr.name, node))
      [] fr.k = "if_cond" ->
            PCall(PPush(p, [k |-> "if_body", condition |-> node]), "parse_block", 0)
      [] fr.k = "if_body" -> ElseLoop(p, [condition |-> fr.condition, body |-> node], <<>>)
      [] fr.k = "else_if_cond" ->
            PCall(PPush(p, [k |-> "else_if_body", condition |-> fr.condition, body |-> fr.body,
                            else_ifs |-> fr.else_ifs, cond |-> node]),
                  "parse_block", 0)
      [] fr.k = "else_if_body" ->
            ElseLoop(p, fr, Append(fr.else_ifs, [cond |-> fr.cond, body |-> node]))
      [] fr.k = "else_body" -> PRet(p, SIf(fr.condition, fr.body, fr.else_ifs, TRUE, node))
      [] fr.k = "while_cond" ->
            PCall(PPush(p, [k |-> "while_body", condition |-> node]), "parse_block", 0)
      [] fr.k = "while_body" -> PRet(p, SWhile(fr.condition, node))
      [] fr.k = "for_iterable" ->
            PCall(PPush(p, [k |-> "for_body", var |-> fr.var, iterable |-> node]),
                  "parse_block", 0)
      [] fr.k = "for_body" -> PRet(p, SForIn(fr.var, fr.iterable, node))
      [] fr.k = "repeat_count" ->
            PCall(PPush(p, [k |-> "repeat_body", count |-> node]), "parse_block", 0)
      [] fr.k = "repeat_body" -> PRet(p, SRepeat(fr.count, node))
      [] fr.k = "fn_body" -> PRet(p, SFnDecl(fr.name, fr.params, node))
      [] fr.k = "return_value" -> PRet(p, SReturn(TRUE, node))
      [] fr.k = "expr_or_assign" ->
            IF peek(p) \in {"Eq", "PlusEq", "MinusEq", "StarEq", "SlashEq", "PercentEq"}
            THEN OrFail(expr_to_assign_target(advance(p), node), LAMBDA target :
                 PCall(PPush(target.p, [k |-> "assign_value", target |-> target.node,
                                        op |-> AssignOpOf(peek(p))]),
                       "parse_expr", 0))
            ELSE PRet(p, SExprStmt(node))
      [] fr.k = "assign_value" -> PRet(p, SAssign(fr.target, fr.op, node))
      [] fr.k = "binary_left" -> BinaryLoop(p, fr.level, node)
      [] fr.k = "binary_right" ->
            BinaryLoop(p, fr.level, EBinaryOp(fr.left, fr.op, node))
      [] fr.k = "unary_operand" -> PRet(leave(p), EUnaryOp(fr.op, node))
      [] fr.k = "unary_postfix" -> PRet(leave(p), node)
      [] fr.k = "postfix_primary" -> PostfixLoop(p, node)
      [] fr.k = "call_args" ->
            OrFail(expect(p, "RParen"), LAMBDA close :
            PostfixLoop(close.p, ECall(fr.expr, node)))
      [] fr.k = "index" ->
            OrFail(expect(p, "RBracket"), LAMBDA close :
            PostfixLoop(close.p, EIndex(fr.expr, node)))
      [] fr.k = "method_args" ->
            OrFail(expect(p, "RParen"), LAMBDA close :
            PostfixLoop(close.p, EMethodCall(fr.expr, fr.method, node)))
      [] fr.k = "args" ->
            IF peek(p) = "Comma"
            THEN PCall(PPush(advance(p), [k |-> "args", args |-> Append(fr.args, node)]),
                       "parse_expr", 0)
            ELSE PRet(p, Append(fr.args, node))
      [] fr.k = "paren" ->
            OrFail(expect(p, "RParen"), LAMBDA close : PRet(leave(close.p), node))
      [] fr.k = "elements" ->
            IF peek(p) = "Comma" /\ peek(advance(p)) # "RBracket"
            THEN PCall(PPush(advance(p),
                             [k |-> "elements", elements |-> Append(fr.elements, node)]),
                       "parse_expr", 0)
            ELSE OrFail(expect(IF peek(p) = "Comma" THEN advance(p) ELSE p, "RBracket"),
                        LAMBDA close : PRet(close.p, EArray(Append(fr.elements, node))))
      [] fr.k = "entry_value" ->
            IF peek(p) = "Comma" /\ peek(advance(p)) # "RBrace"
            THEN EntryStart(advance(p),
                            Append(fr.entries, [key |-> fr.key, value |-> node]))
            ELSE OrFail(expect(IF peek(p) = "Comma" THEN advance(p) ELSE p, "RBrace"),
                        LAMBDA close :
                        PRet(close.p, EDict(Append(fr.entries,
                                                   [key |-> fr.key, value |-> node]))))
      [] fr.k = "if_expr_cond" ->
            OrFail(expect(p, "LBrace"), LAMBDA open :
            PCall(PPush(open.p, [k |-> "if_expr_then", condition |-> node]), "parse_expr", 0))
      [] fr.k = "if_expr_then" ->
            OrFail(expect(p, "RBrace"), LAMBDA c1 :
            OrFail(expect(c1.p, "Else"), LAMBDA else0 :
            OrFail(expect(else0.p, "LBrace"), LAMBDA open :
            PCall(PPush(open.p, [k |-> "if_expr_else", condition |-> fr.condition,
                                 then_expr |-> node]),
                  "parse_expr", 0))))
      [] fr.k = "if_expr_else" ->
            OrFail(expect(p, "RBrace"), LAMBDA close :
            PRet(close.p, EIfExpr(fr.condition, fr.then_expr, node)))

\* parse_program has returned, or an error has been handed up
ParserDone(p) == p.ctl.c = "fail" \/ (p.ctl.c = "ret" /\ p.stack = <<>>)

\* one step of the Parser
ParserStep(p) ==
    IF p.ctl.c = "call" THEN ParserEnter(p)
    ELSE ParserResume(PPop(p), p.stack[Len(p.stack)], p.ctl.node)

\* let stmts = parser::parse(tokens)?  as begin, steps and end: the tokens
\* move into the Parser, which parse_program then works on
ParseBegin ==
    /\ pc = "lexed"
    /\ pc' = "parsing"
    /\ parser' = ParserNew(tokens)
    /\ UNCHANGED <<instructions, tokens, stmts, result, evalVars, runArgs, suspended, otherVars>>

ParseStep ==
    /\ pc = "parsing"
    /\ ~ParserDone(parser)
    /\ parser' = ParserStep(parser)
    /\ UNCHANGED <<pc, instructions, tokens, stmts, result, evalVars, runArgs, suspended,
                   otherVars>>

ParseEnd ==
    /\ pc = "parsing"
    /\ ParserDone(parser)
    /\ IF parser.ctl.c = "ret"
       THEN pc' = "parsed" /\ stmts' = parser.ctl.node /\ result' = result
       ELSE pc' = "done" /\ stmts' = stmts /\ result' = Err(parser.ctl.e)
    /\ UNCHANGED <<parser, instructions, tokens, evalVars, runArgs, suspended, otherVars>>

\* how far the depths of the token streams lie around the deepest accepted
NestMargin == 2

Tok(k) == Token(k, <<>>)
\* -- .. -1 with n minus signs
NestUnary(n) == Chars(Tok("Minus"), n) \o <<Token("Number", <<"1">>), Tok("Eof")>>
\* (( .. 1 .. )) with n pairs of parentheses
NestParens(n) ==
    Chars(Tok("LParen"), n) \o <<Token("Number", <<"1">>)>> \o Chars(Tok("RParen"), n)
    \o <<Tok("Eof")>>
\* if a { if a { .. } } with n blocks, the innermost one empty
NestBlocks(n) ==
    RepeatSeq(<<Tok("If"), Token("Ident", <<"a">>), Tok("LBrace")>>, n)
    \o Chars(Tok("RBrace"), n) \o <<Tok("Eof")>>
\* n blocks with the statement `!b` in the innermost one
NestBody(n) ==
    RepeatSeq(<<Tok("If"), Token("Ident", <<"a">>), Tok("LBrace")>>, n)
    \o <<Tok("Bang"), Token("Ident", <<"b">>)>> \o Chars(Tok("RBrace"), n) \o <<Tok("Eof")>>
\* while a { -(-( .. 1 .. )) } with n times `-(`
NestMixed(n) ==
    <<Tok("While"), Token("Ident", <<"a">>), Tok("LBrace")>>
    \o RepeatSeq(<<Tok("Minus"), Tok("LParen")>>, n) \o <<Token("Number", <<"1">>)>>
    \o Chars(Tok("RParen"), n) \o <<Tok("RBrace"), Tok("Eof")>>

Around(n) == {k \in (n - NestMargin)..(n + NestMargin) : k >= 0}

NestTokens ==
    {NestUnary(n) : n \in Around(1) \cup Around(MAX_PARSE_DEPTH - 1)}
    \cup {NestParens(n) : n \in Around(1) \cup Around(MAX_PARSE_DEPTH \div 2)}
    \cup {NestBlocks(n) : n \in Around(1) \cup Around(MAX_PARSE_DEPTH)}
    \cup {NestBody(n) : n \in Around(1) \cup Around(MAX_PARSE_DEPTH - 2)}
    \cup {NestMixed(n) : n \in Around(1) \cup Around(MAX_PARSE_DEPTH \div 3)}

\* lexer::lex has returned one of the token streams
InitNest ==
    /\ pc = "lexed"
    /\ source = <<>>
    /\ limits = [max_steps |-> MaxStepsLarge, max_memory |-> MemLarge]
    /\ cfg = [kind |-> "TestHost", tick_fail |-> 0]
    /\ tokens \in NestTokens
    /\ stmts = <<>>
    /\ host = InitHost
    /\ ctl = CtlIdle
    /\ kont = <<>>
    /\ scopes = <<>>
    /\ functions = EmptyScope
    /\ steps = 0
    /\ call_depth = 0
    /\ rand_state = RandZero
    /\ USED = 0
    /\ LIMIT = UsizeMax
    /\ result = Pending
    /\ hist = InitHist
    /\ suspended = <<>>
    /\ OTHER_USED = 0
    /\ OTHER_LIMIT = UsizeMax
    /\ other_pc = "start"
    /\ previous = NoRun
    /\ instructions = 0
    /\ parser = NoParser

NextNest ==
    \/ ParseBegin
    \/ ParseStep
    \/ ParseEnd

SpecNest == InitNest /\ [][NextNest]_vars

\* ======================================================================
\* lexer::lex on texts made of a first line, a gap of line breaks and a
\* second line
\* ======================================================================

\* the longest run of line breaks in a gap
MaxNewlines == 2

\* the first lines: nothing, one token of every kind that can end a line,
\* and a comment after a token
FirstLines ==
    {<<>>, <<"x">>, <<"7">>, <<"\"", "a", "\"">>, <<"\"", "{", "x", "}", "\"">>,
     <<"t", "r", "u", "e">>, <<"f", "a", "l", "s", "e">>, <<"n", "o", "n", "e">>,
     <<"b", "r", "e", "a", "k">>, <<"c", "o", "n", "t", "i", "n", "u", "e">>,
     <<"r", "e", "t", "u", "r", "n">>, <<")">>, <<"]">>, <<"}">>,
     <<"+">>, <<"=">>, <<"!">>, <<"(">>, <<"[">>, <<"{">>, <<",">>, <<":">>, <<".">>,
     <<";">>, <<"l", "e", "t">>, <<"i", "f">>, <<"e", "l", "s", "e">>, <<"f", "n">>,
     <<"x", " ", "/", "/", "c">>, <<"+", " ", "/", "/", "c">>, <<"\"", "a">>}

\* the gaps: a run of line breaks, alone, with blanks or with a comment
Gaps ==
    {Chars("\n", n) : n \in 0..MaxNewlines}
    \cup {Chars("\n", n) \o <<" ", "\n">> : n \in 1..MaxNewlines}
    \cup {Chars("\n", n) \o <<"/", "/", "c", "\n">> : n \in 1..MaxNewlines}

\* the second lines
SecondLines ==
    {<<>>, <<"y">>, <<"-", " ", "1">>, <<";">>, <<"y", "\n", "}", "\n", "\n", "z">>}

LexTexts == {a \o g \o b : a \in FirstLines, g \in Gaps, b \in SecondLines}

InitLex ==
    /\ pc = "start"
    /\ source \in LexTexts
    /\ limits = [max_steps |-> MaxStepsLarge, max_memory |-> MemLarge]
    /\ cfg = [kind |-> "TestHost", tick_fail |-> 0]
    /\ tokens = <<>>
    /\ stmts = <<>>
    /\ host = InitHost
    /\ ctl = CtlIdle
    /\ kont = <<>>
    /\ scopes = <<>>
    /\ functions = EmptyScope
    /\ steps = 0
    /\ call_depth = 0
    /\ rand_state = RandZero
    /\ USED = 0
    /\ LIMIT = UsizeMax
    /\ result = Pending
    /\ hist = InitHist
    /\ suspended = <<>>
    /\ OTHER_USED = 0
    /\ OTHER_LIMIT = UsizeMax
    /\ other_pc = "start"
    /\ previous = NoRun
    /\ instructions = 0
    /\ parser = NoParser

NextLex == LexText

SpecLex == InitLex /\ [][NextLex]_vars


\* ======================================================================
\* memory.rs on its own: the ledger operations, the pre-flight checks and
\* the tracked constructors, in any order and with sizes up to the largest
\* a buffer can have
\* ======================================================================

\* how many ledger operations the model follows
MaxLedgerOps == 3

\* the byte counts handed to alloc, dealloc and would_exceed
LedgerBytes == {0, 1, IsizeMax, UsizeMax}
\* the limits handed to init
LedgerLimits == {0, MemSmall, UsizeMax}
\* the lengths of a string, which is one buffer
StringLens == {0, 1, IsizeMax}
\* the lengths and capacities of an array, whose buffer holds Values
ArrayLens == {0, 4, IsizeMax \div SizeOfValue}
\* the counts of a string repeat (`as usize` of a number)
RepeatCounts == {0, 2, UsizeMax}
\* the capacities of a dict, whose buffer holds entries
DictCaps == {0, 1, IsizeMax \div SizeOfEntry}
\* the capacities of the keys of a dict
KeyCaps == {1, IsizeMax \div 2}

LedgerOp(op, args, size, answer) ==
    [op |-> op, args |-> args, size |-> size, answer |-> answer]

InitLedger ==
    /\ pc = "ledger"
    /\ source = <<>>
    /\ limits = [max_steps |-> MaxStepsLarge, max_memory |-> MemLarge]
    /\ cfg = [kind |-> "TestHost", tick_fail |-> 0]
    /\ tokens = <<>>
    /\ stmts = <<>>
    /\ host = InitHost
    /\ ctl = CtlIdle
    /\ kont = <<>>
    /\ scopes = <<>>
    /\ functions = EmptyScope
    /\ steps = 0
    /\ call_depth = 0
    /\ rand_state = RandZero
    /\ USED = 0
    /\ LIMIT = UsizeMax
    /\ result = Pending
    /\ hist = LedgerOp("none", <<>>, 0, FALSE)
    /\ suspended = <<>>
    /\ OTHER_USED = 0
    /\ OTHER_LIMIT = UsizeMax
    /\ other_pc = "start"
    /\ previous = NoRun
    /\ instructions = 0
    /\ parser = NoParser

\* one more ledger operation: the counter, the limit and what was done
Ledger(op, used, limit) ==
    /\ pc = "ledger"
    /\ steps < MaxLedgerOps
    /\ steps' = steps + 1
    /\ USED' = used
    /\ LIMIT' = limit
    /\ hist' = op
    /\ UNCHANGED <<pc, parser, instructions, tokens, stmts, ctl, kont, scopes, functions,
                   call_depth, rand_state, host, result, runArgs, suspended, otherVars>>

\* bop_memory_init(limit)
LedgerInit ==
    \E limit \in LedgerLimits :
        LET m == bop_memory_init(M, limit)
        IN pc = "ledger" /\ Ledger(LedgerOp("init", <<limit>>, 0, FALSE), m.used, m.limit)

\* bop_alloc(bytes)
LedgerAlloc ==
    \E bytes \in LedgerBytes :
        pc = "ledger" /\ Ledger(LedgerOp("alloc", <<bytes>>, bytes, FALSE), bop_alloc(USED, bytes), LIMIT)

\* bop_dealloc(bytes)
LedgerDealloc ==
    \E bytes \in LedgerBytes :
        pc = "ledger" /\ Ledger(LedgerOp("dealloc", <<bytes>>, bytes, FALSE), bop_dealloc(USED, bytes), LIMIT)

\* bop_memory_exceeded()
LedgerExceeded ==
    pc = "ledger" /\ Ledger(LedgerOp("exceeded", <<>>, 0, bop_memory_exceeded(USED, LIMIT)), USED, LIMIT)

\* bop_would_exceed(bytes)
LedgerWouldExceed ==
    \E bytes \in LedgerBytes :
        pc = "ledger" /\ Ledger(LedgerOp("would_exceed", <<bytes>>, bytes,
                        bop_would_exceed(USED, LIMIT, bytes)), USED, LIMIT)

\* check_string_repeat_memory(len, count)
CheckStringRepeat ==
    \E len \in StringLens, count \in RepeatCounts :
        pc = "ledger" /\ Ledger(LedgerOp("string_repeat", <<len, count>>, SatMul(len, count),
                        ~check_string_repeat_memory(USED, LIMIT, len, count).ok),
               USED, LIMIT)

\* check_string_concat_memory(a_len, b_len): both strings exist
CheckStringConcat ==
    \E a_len \in StringLens, b_len \in StringLens :
        pc = "ledger" /\ Ledger(LedgerOp("string_concat", <<a_len, b_len>>, WrapAdd(a_len, b_len),
                        ~check_string_concat_memory(USED, LIMIT, a_len, b_len).ok),
               USED, LIMIT)

\* check_array_concat_memory(a_len, b_len): both arrays exist
CheckArrayConcat ==
    \E a_len \in ArrayLens, b_len \in ArrayLens :
        pc = "ledger" /\ Ledger(LedgerOp("array_concat", <<a_len, b_len>>,
                        WrapMul(WrapAdd(a_len, b_len), SizeOfValue),
                        ~check_array_concat_memory(USED, LIMIT, a_len, b_len).ok),
               USED, LIMIT)

\* Value::new_array(items) for a buffer of the capacity cap
NewArray ==
    \E cap \in ArrayLens :
        LET v == new_array(<<>>, cap)
        IN pc = "ledger" /\ Ledger(LedgerOp("new_array", <<cap>>, OwnBytes(v), FALSE),
                  bop_alloc(USED, OwnBytes(v)), LIMIT)

\* Value::new_dict(entries) for a buffer of the capacity cap and keys of the
\* capacities kcaps; the buffer and the keys exist together
NewDict ==
    \E cap \in DictCaps, kcaps \in {<<>>} \cup {<<k>> : k \in KeyCaps} :
        /\ Len(kcaps) <= cap
        /\ LET v == new_dict([i \in 1..Len(kcaps) |-> DEntry(<<"k">>, kcaps[i], NoneV)], cap)
           IN pc = "ledger" /\ Ledger(LedgerOp("new_dict", <<cap>> \o kcaps, OwnBytes(v), FALSE),
                     bop_alloc(USED, OwnBytes(v)), LIMIT)

NextLedger ==
    \/ LedgerInit
    \/ LedgerAlloc
    \/ LedgerDealloc
    \/ LedgerExceeded
    \/ LedgerWouldExceed
    \/ CheckStringRepeat
    \/ CheckStringConcat
    \/ CheckArrayConcat
    \/ NewArray
    \/ NewDict

SpecLedger == InitLedger /\ [][NextLedger]_vars


\* ======================================================================
\* Indexed read and write (index_into, set_index) and the array methods
\* insert and remove, on arrays of every small length and indices of every
\* size
\* ======================================================================

\* the longest array
MaxIndexLen == 3
\* how many operations are applied to the array
MaxIndexOps == 1

\* [10, 11, ..] of the length len
IndexArray(len) == new_array([i \in 1..len |-> NumV(9 + i)], len)

\* the indices: around zero, around the ends of i64 and of usize, and two
\* that are not whole
IndexNumbers ==
    {NumV(n) : n \in (0 - MaxIndexLen - 1)..(MaxIndexLen + 1)}
    \cup {NumV(n) : n \in (IsizeMax - 1)..(IsizeMax + 2)}
    \cup {NumV(n) : n \in (0 - IsizeMax - MaxIndexLen - 2)..(0 - IsizeMax + 1)}
    \cup {NumV(n) : n \in (UsizeMax - 1)..(UsizeMax + MaxIndexLen + 1)}
    \cup {NumV(n) : n \in (0 - UsizeMax - MaxIndexLen - 1)..(0 - UsizeMax + MaxIndexLen + 1)}
    \cup {FromHalves(3), FromHalves(0 - 1)}

\* the values written
IndexValues == {NumV(99), new_str(<<"v">>, 1)}

IndexOp(op, obj, idx, val, r) == [op |-> op, obj |-> obj, idx |-> idx, val |-> val, r |-> r]

InitIndex ==
    /\ pc = "index"
    /\ source = <<>>
    /\ limits = [max_steps |-> MaxStepsLarge, max_memory |-> MemLarge]
    /\ cfg = [kind |-> "TestHost", tick_fail |-> 0]
    /\ tokens = <<>>
    /\ stmts = <<>>
    /\ host = InitHost
    /\ ctl = CtlIdle
    /\ kont = <<>>
    /\ \E len \in 0..MaxIndexLen : scopes = <<[a |-> IndexArray(len)]>>
    /\ functions = EmptyScope
    /\ steps = 0
    /\ call_depth = 0
    /\ rand_state = RandZero
    /\ USED = 0
    /\ LIMIT = UsizeMax
    /\ result = Pending
    /\ hist = IndexOp("none", NoneV, NoneV, NoneV, OpOk(NoneV))
    /\ suspended = <<>>
    /\ OTHER_USED = 0
    /\ OTHER_LIMIT = UsizeMax
    /\ other_pc = "start"
    /\ previous = NoRun
    /\ instructions = 0
    /\ parser = NoParser

\* one more operation on the array a: what was done and the array after it
Indexed(op, obj) ==
    /\ steps < MaxIndexOps
    /\ steps' = steps + 1
    /\ hist' = op
    /\ scopes' = <<[a |-> obj]>>
    /\ UNCHANGED <<pc, parser, instructions, tokens, stmts, ctl, kont, functions, call_depth,
                   rand_state, host, result, runArgs, suspended, USED, LIMIT, otherVars>>

\* index_into(a, idx)
IndexRead ==
    \E idx \in IndexNumbers :
        /\ pc = "index"
        /\ LET obj == scopes[1].a
           IN Indexed(IndexOp("read", obj, idx, NoneV, index_into(obj, idx)), obj)

\* set_index(a, idx, val)
IndexWrite ==
    \E idx \in IndexNumbers, val \in IndexValues :
        /\ pc = "index"
        /\ LET obj == scopes[1].a
               r == set_index(obj, idx, val)
           IN Indexed(IndexOp("write", obj, idx, val, r), r.obj)

\* a.insert(idx, val): array_method, and the receiver written back when the
\* method gives a mutated array
ArrayInsert ==
    \E idx \in IndexNumbers, val \in IndexValues :
        /\ pc = "index"
        /\ LET obj == scopes[1].a
               r == array_method(obj.items, "insert", <<idx, val>>)
           IN Indexed(IndexOp("insert", obj, idx, val, r),
                      IF r.ok /\ r.some THEN r.mutated ELSE obj)

\* a.remove(idx)
ArrayRemove ==
    \E idx \in IndexNumbers :
        /\ pc = "index"
        /\ LET obj == scopes[1].a
               r == array_method(obj.items, "remove", <<idx>>)
           IN Indexed(IndexOp("remove", obj, idx, NoneV, r),
                      IF r.ok /\ r.some THEN r.mutated ELSE obj)

NextIndex ==
    \/ IndexRead
    \/ IndexWrite
    \/ ArrayInsert
    \/ ArrayRemove

SpecIndex == InitIndex /\ [][NextIndex]_vars






\* ======================================================================
\* Properties
\* ======================================================================

\* C1: every run terminates (run returns success or an error), it performs
\* at most max_steps successful ticks, and `while true { }` under a host
\* that never cancels ends with the step-limit error.
C1_Terminates ==
    /\ [](hist.ok_ticks <= limits.max_steps)
    /\ []((pc = "done" /\ source = P_while_true /\ cfg.tick_fail = 0)
             => result = Err(error_with_hint(StepLimitMsg,
                  "Check your loops - make sure they have a condition that eventually stops them.")))
    /\ <>(pc = "done" /\ result # Pending)

\* `while true { }` has been stopped by the step limit after exactly
\* max_steps successful ticks
C1_Witness ==
    /\ pc = "done"
    /\ source = P_while_true
    /\ result.e.msg = StepLimitMsg
    /\ hist.ok_ticks = limits.max_steps
    /\ steps = limits.max_steps + 1

\* C2: when run has returned, with success or with any error, the ledger
\* of its thread is back at 0.
C2_LedgerZero == pc = "done" => USED = 0

\* A run that failed while values were alive (they were dropped with the
\* evaluator) has returned
C2_Witness ==
    /\ pc = "done"
    /\ ~result.ok
    /\ hist.raised >= 1
    /\ hist.final_used > 0
    /\ USED = 0

\* C3: after the first error of a run no statement is executed, no tick is
\* made, the host hears nothing more (on_print, call, on_tick), no second
\* error is raised, and run returns exactly that first error.
C3_FirstErrorFinal ==
    /\ []((pc = "done" /\ hist.raised >= 1) => result = Err(hist.first_err))
    /\ [][hist.raised >= 1 =>
            /\ host' = host
            /\ steps' = steps
            /\ hist'.stmt_execs = hist.stmt_execs
            /\ hist'.loop_iters = hist.loop_iters
            /\ hist'.calls = hist.calls
            /\ hist'.raised = hist.raised
            /\ hist'.first_err = hist.first_err]_vars

\* An error raised inside a block inside a user function called from the
\* arguments of print has been returned by run; the statements after it
\* were not executed
C3_Witness ==
    /\ pc = "done"
    /\ source = P_fn_err
    /\ hist.raised = 1
    /\ hist.err_src = "op"
    /\ result = Err(hist.first_err)
    /\ host.prints = <<>>

\* C4: a source text with a lexing or parsing fault is never executed: no
\* statement runs, the host hears nothing, and run returns the error of
\* the lexer (or, when the lexer accepts the text, of the parser).
C4_NoExecOnBadSource ==
    (\E i \in 1..Len(source) : source[i].fault # "none") =>
        /\ pc \in {"start", "lexed", "done"}
        /\ steps = 0
        /\ hist.stmt_execs = 0
        /\ host = InitHost
        /\ pc = "done" =>
              result = IF \E i \in 1..Len(source) : source[i].fault = "lex"
                       THEN Err(LexError) ELSE Err(ParseError)

\* run has returned the parse error of a text whose faulty part comes after
\* two valid statements
C4_Witness ==
    /\ pc = "done"
    /\ source = P_bad_token
    /\ source[1].fault = "none"
    /\ result = Err(ParseError)
    /\ host.prints = <<>>

\* C5: the step counter is the number of statement executions started plus
\* the number of loop iterations started (while tests, repeat iterations,
\* for elements); nothing else adds to it.
C5_StepsCount == steps = hist.stmt_execs + hist.loop_iters

\* The counting loop has run: 4 tests of the while condition (the last one
\* false), 12 statements, a call of print per iteration
C5_Witness ==
    /\ pc = "done"
    /\ source = P_while_count
    /\ result.ok
    /\ hist.loop_iters = 4
    /\ hist.stmt_execs = 12
    /\ steps = 16


\* C6: a tick first adds 1 to the step counter and fails with the
\* step-limit error when the counter is then above max_steps; otherwise it
\* fails with the memory-limit error when the ledger is above the limit;
\* otherwise it calls on_tick, whose failure ends the run.  A failing tick
\* leaves the scopes, the functions, the ledger and the output untouched,
\* and a tick that passes has passed all three checks.
C6_TickOrder ==
    /\ [](steps <= limits.max_steps + 1 /\ hist.ok_ticks <= limits.max_steps)
    /\ [][(hist.raised = 0 /\ hist'.raised = 1 /\ hist'.err_src \in {"tick", "host"}) =>
            /\ steps' = steps + 1
            /\ scopes' = scopes /\ functions' = functions /\ USED' = USED
            /\ host'.prints = host.prints /\ host'.calls = host.calls
            /\ hist'.ok_ticks = hist.ok_ticks
            /\ CASE hist'.first_err.msg = StepLimitMsg ->
                       /\ steps' > limits.max_steps
                       /\ host'.tick_calls = host.tick_calls
                 [] hist'.first_err.msg = MemoryLimitMsg ->
                       /\ steps' <= limits.max_steps
                       /\ bop_memory_exceeded(USED, LIMIT)
                       /\ host'.tick_calls = host.tick_calls
                 [] OTHER ->
                       /\ hist'.first_err = HostTickError
                       /\ steps' <= limits.max_steps
                       /\ ~bop_memory_exceeded(USED, LIMIT)
                       /\ host'.tick_calls = host.tick_calls + 1]_vars
    /\ [][hist'.ok_ticks # hist.ok_ticks =>
            /\ hist'.ok_ticks = hist.ok_ticks + 1
            /\ steps' = steps + 1
            /\ steps' <= limits.max_steps
            /\ ~bop_memory_exceeded(USED, LIMIT)
            /\ host'.tick_calls = host.tick_calls + 1
            /\ hist'.raised = 0]_vars

\* on_tick has failed at its k-th call: the k-th tick of the run, before
\* the statement it guards had any effect
C6_Witness ==
    /\ hist.err_src = "host"
    /\ hist.first_err = HostTickError
    /\ cfg.tick_fail >= 2
    /\ steps = cfg.tick_fail
    /\ host.tick_calls = cfg.tick_fail
    /\ hist.ok_ticks = cfg.tick_fail - 1
    /\ hist.stmt_execs + hist.loop_iters = cfg.tick_fail

C8_OvershootTolerated ==
    /\ (hist.raised >= 1 /\ hist.first_err.msg = MemoryLimitMsg)
          => hist.err_src \in {"tick", "preflight"}
    /\ (pc = "done" /\ hist.raised = 0
           /\ \A i \in 1..Len(source) : source[i].fault = "none")
          => result = Ok

\* The split of the last statement took the ledger above the limit and run
\* returned success
C8_Witness ==
    /\ pc = "done"
    /\ source = P_split
    /\ result = Ok
    /\ hist.ops = {"string split"}
    /\ hist.final_used > LIMIT

\* C9: the call depth never exceeds 64 and always equals the number of user
\* calls in progress (so it is restored when a call ends, however it
\* ends); it grows by one call at a time and only from below 64; the
\* depth error is raised at depth 64 and nowhere else.
C9_DepthBound ==
    /\ [](/\ call_depth <= MAX_CALL_DEPTH
          /\ call_depth = Cardinality({i \in 1..Len(kont) : kont[i].k = "CallK"})
          /\ pc = "done" => (call_depth = 0 /\ hist.final_depth = 0))
    /\ [][call_depth' > call_depth =>
            (call_depth < MAX_CALL_DEPTH /\ call_depth' = call_depth + 1)]_vars
    /\ [][(hist.raised = 0 /\ hist'.raised = 1 /\ hist'.err_src = "depth") =>
            /\ call_depth = MAX_CALL_DEPTH
            /\ call_depth' = MAX_CALL_DEPTH
            /\ hist'.first_err.msg = DepthLimitMsg]_vars
    /\ [][(ctl.c = "call" /\ call_depth = MAX_CALL_DEPTH /\ pc = "running"
             /\ ctl.name \in DOMAIN functions /\ ctl.name \notin BuiltinNames
             /\ ~HostCall(cfg, ctl.name, ctl.args).handled) =>
            (ctl'.c = "err" /\ hist'.raised >= 1)]_vars

\* 64 user calls are in progress and the innermost one is returning
\* normally
C9_Witness ==
    /\ call_depth = MAX_CALL_DEPTH
    /\ ctl.c = "sig"
    /\ hist.raised = 0
    /\ source = P_rec_64

\* C10 (as the spec states it, for a run nested in a host callback): when
\* the nested run has returned, the byte count and the limit of the waiting
\* execution are what they were when it made the call.
C10_NestedIsolation ==
    (pc = "done" /\ suspended # <<>>) =>
        /\ USED = suspended[Len(suspended)].used
        /\ LIMIT = suspended[Len(suspended)].limit


\* the PRNG state after k successful rand calls of a run
RECURSIVE RandStateAt(_)
RandStateAt(k) == IF k = 0 THEN RandZero ELSE RandNext(RandStateAt(k - 1))

\* C11: a second run of the same source with the same limits and a host
\* that answers identically reports the same on_print messages and the same
\* result as the first; the PRNG state is 0 when a run starts, and the k-th
\* successful rand call returns (state_k >> 33) % n, a value in 0 .. n-1
\* that depends on k and n only.
C11_Deterministic ==
    /\ (pc = "done" /\ previous.ran) =>
          (host.prints = previous.prints /\ result = previous.result)
    /\ pc = "new" => rand_state = RandZero
    /\ pc \in {"new", "running"} => rand_state = RandStateAt(hist.rands)
    /\ (pc = "running" /\ hist.rands > 0) =>
          /\ hist.last_rand.v = ShiftRight33(RandStateAt(hist.rands)) % hist.last_rand.n
          /\ 0 <= hist.last_rand.v
          /\ hist.last_rand.v < hist.last_rand.n

\* the second run of the program with rand calls has ended after its third
\* rand call, with the same three printed numbers as the first run
C11_Witness ==
    /\ pc = "done"
    /\ previous.ran
    /\ source = P_rand
    /\ hist.rands = 3
    /\ Len(host.prints) = 2
    /\ host.prints = previous.prints
    /\ result = previous.result
    /\ result = Err(error("rand needs a positive number"))

\* C12: a call resolves in a fixed order.  A built-in name runs the
\* built-in: host.call is not invoked and no user function starts.  Any
\* other name invokes host.call once; when the host handles the name, its
\* answer (value or error) is the outcome of the call and no user function
\* starts; when it does not, the user function of that name is looked up,
\* and a name that is not declared fails with "Function not found".
C12_ResolutionOrder ==
    [][(pc = "running" /\ pc' = "running" /\ ctl.c = "call") =>
         IF ctl.name \in BuiltinNames
         THEN /\ host'.calls = host.calls
              /\ hist'.calls = hist.calls
              /\ call_depth' = call_depth
              /\ kont' = kont
              /\ ctl'.c \in {"val", "err"}
         ELSE /\ host'.calls = host.calls + 1
              /\ IF HostCall(cfg, ctl.name, ctl.args).handled
                 THEN /\ hist'.calls = hist.calls
                      /\ call_depth' = call_depth
                      /\ kont' = kont
                      /\ ctl' = IF HostCall(cfg, ctl.name, ctl.args).r.ok
                                THEN CtlVal(HostCall(cfg, ctl.name, ctl.args).r.v)
                                ELSE CtlErr(HostCall(cfg, ctl.name, ctl.args).r.e)
                 ELSE IF ctl.name \notin DOMAIN functions
                      THEN /\ ctl'.c = "err"
                           /\ ctl'.e.msg = "Function {} not found"
                           /\ hist'.calls = hist.calls
                      ELSE \/ /\ hist'.calls = hist.calls + 1
                              /\ call_depth' = call_depth + 1
                              /\ ctl' = CtlBlock(functions[ctl.name].body, 1)
                           \/ /\ ctl'.c = "err"
                              /\ hist'.calls = hist.calls]_vars

\* under the host that handles greet, the program that declares its own
\* len and greet has printed the built-in length and the greeting of the
\* host, and has ended with the error of the host for greet(): neither
\* declared function has run
C12_Witness ==
    /\ pc = "done"
    /\ source = P_shadow
    /\ cfg.kind = "CustomHost"
    /\ DOMAIN functions = {"len", "greet"}
    /\ host.prints = <<<<"3">>, <<"H", "e", "l", "l", "o", ",", " ", "b", "o", "!">>>>
    /\ host.calls = 2
    /\ hist.calls = 0
    /\ result = Err(error("greet() needs 1 argument"))

\* the names that resolve in a scope stack
ScopeNames(sc) == UNION {DOMAIN sc[i] : i \in 1..Len(sc)}

\* C13: a call starts its body with a scope stack that holds the parameters
\* and nothing else, and keeps the scope stack of the caller aside; inside
\* a body a name is added only by a let or by the variable of a for loop;
\* reading or assigning a name that the body has not bound fails and
\* changes no scope, whatever the caller holds under that name; and when
\* the call ends, with a value or with an error, the scope stack is again
\* the one that was kept aside when the call began.
C13_FunctionScope ==
    /\ [][call_depth' = call_depth + 1 =>
            /\ ctl.c = "call"
            /\ kont' = Append(kont, Frame("CallK", <<>>, [saved_scopes |-> scopes]))
            /\ Len(scopes') = 1
            /\ DOMAIN scopes'[1] =
                  {functions[ctl.name].params[i] : i \in 1..Len(ctl.args)}
            /\ \A i \in 1..Len(ctl.args) :
                  scopes'[1][functions[ctl.name].params[i]] = ctl.args[i]]_vars
    /\ [][(call_depth > 0 /\ call_depth' = call_depth /\ pc' = "running"
             /\ ~(ScopeNames(scopes') \subseteq ScopeNames(scopes))) =>
            \/ /\ ctl.c = "val"
               /\ kont[Len(kont)].k = "LetK"
               /\ ScopeNames(scopes') = ScopeNames(scopes) \cup {kont[Len(kont)].d.name}
            \/ /\ ctl.c = "for_iter"
               /\ ScopeNames(scopes') = ScopeNames(scopes) \cup {kont[Len(kont)].d.var}]_vars
    /\ [][(pc = "running" /\ call_depth > 0 /\ ctl.c = "eval" /\ ctl.e.kind = "Ident"
             /\ ctl.e.name \notin ScopeNames(scopes)) =>
            /\ ctl'.c = "err"
            /\ ctl'.e.msg = "Variable {} not found"
            /\ scopes' = scopes
            /\ kont' = kont]_vars
    /\ [][(pc = "running" /\ call_depth > 0 /\ ctl.c = "val" /\ kont # <<>>
             /\ \/ /\ kont[Len(kont)].k = "AssignK"
                   /\ kont[Len(kont)].d.target.kind = "Variable"
                   /\ kont[Len(kont)].d.target.name \notin ScopeNames(scopes)
                \/ /\ kont[Len(kont)].k = "AssignIdxK"
                   /\ kont[Len(kont)].d.op = "Eq"
                   /\ kont[Len(kont)].d.target.object.kind = "Ident"
                   /\ kont[Len(kont)].d.target.object.name \notin ScopeNames(scopes)) =>
            /\ ctl'.c = "err"
            /\ scopes' = scopes
            /\ kont' = SubSeq(kont, 1, Len(kont) - 1)]_vars
    /\ [][call_depth' = call_depth - 1 =>
            /\ kont[Len(kont)].k = "CallK"
            /\ kont' = SubSeq(kont, 1, Len(kont) - 1)
            /\ scopes' = kont[Len(kont)].d.saved_scopes]_vars
    /\ [][\A i \in 1..Len(kont) :
            (kont[i].k = "CallK" /\ i <= Len(kont')) => kont'[i] = kont[i]]_vars

\* the call of w, which assigns the top-level variable g, has ended with an
\* error: g is still 1 and the caller is back in its two scopes (the top
\* level with g, the if-block with y), after an earlier call of ok that
\* declared and changed its own g
C13_Witness ==
    /\ source = P_scope_assign
    /\ pc = "running"
    /\ ctl.c = "err"
    /\ ctl.e.msg = "Variable {} doesnt exist yet"
    /\ call_depth = 0
    /\ hist.calls = 2
    /\ host.prints = <<<<"3">>, <<"1">>>>
    /\ Len(scopes) = 2
    /\ DOMAIN scopes[1] = {"g"}
    /\ scopes[1]["g"] = NumV(1)
    /\ DOMAIN scopes[2] = {"y"}

\* the variable that the step about to be taken may write
WriteTarget ==
    IF ctl.c = "val" /\ kont # <<>>
    THEN LET f == kont[Len(kont)]
         IN CASE f.k = "LetK" -> f.d.name
              [] f.k = "AssignK" /\ f.d.target.kind = "Variable" -> f.d.target.name
              [] f.k = "AssignIdxK" /\ f.d.op = "Eq" /\ f.d.target.object.kind = "Ident" ->
                    f.d.target.object.name
              [] f.k = "AssignObjK" /\ f.d.target.object.kind = "Ident" ->
                    f.d.target.object.name
              [] f.k = "MethodObjK" /\ f.d.object.kind = "Ident" -> f.d.object.name
              [] OTHER -> ""
    ELSE ""

\* the bindings (scope, name) that hold another value after the step
ChangedBindings ==
    {b \in UNION {{<<i, x>> : x \in DOMAIN scopes[i] \cap DOMAIN scopes'[i]} :
                     i \in 1..Min(Len(scopes), Len(scopes'))} :
        scopes'[b[1]][b[2]] # scopes[b[1]][b[2]]}

\* C14: values are never shared.  A step of a body changes the value of at
\* most one binding, the innermost binding of the variable that the
\* statement names as its target (let, assignment, indexed assignment, or
\* the receiver of a method); every other variable, whether it was copied
\* from the target, holds it inside an array or a dict, or was bound to it
\* as an argument, keeps its value.  For the program below: a, changed three
\* times, ends as [7, 2, 3, 4] while its copies b, c, d keep [1, 2] (b but
\* for its own slot), and the argument changed inside m leaves a as it was.
C14_NoAliasing ==
    /\ [][(pc = "running" /\ pc' = "running" /\ call_depth' = call_depth) =>
            /\ Cardinality(ChangedBindings) <= 1
            /\ \A b \in ChangedBindings :
                  /\ b[2] = WriteTarget
                  /\ b[1] = get_var(M, b[2])]_vars
    /\ []((pc = "done" /\ source = P_alias /\ result = Ok) =>
            host.prints =
               <<<<"[", "7", ",", " ", "2", ",", " ", "3", ",", " ", "4", "]">>,
                 <<"[", "1", ",", " ", "8", "]">>,
                 <<"[", "[", "1", ",", " ", "2", "]", "]">>,
                 <<"{", "\"", "k", "\"", ":", " ", "[", "1", ",", " ", "2", "]", "}">>,
                 <<"[", "5", ",", " ", "2", ",", " ", "9", "]">>>>)

\* the program has ended: a was changed by an indexed assignment, a method
\* and a compound assignment, b by an indexed assignment, the parameter
\* bound to a by the function m
C14_Witness ==
    /\ pc = "done"
    /\ source = P_alias
    /\ result = Ok
    /\ hist.calls = 1
    /\ Len(host.prints) = 5
    /\ host.prints[1] = <<"[", "7", ",", " ", "2", ",", " ", "3", ",", " ", "4", "]">>
    /\ host.prints[2] = <<"[", "1", ",", " ", "8", "]">>

\* C15: when the left operand of && is falsy, or the left operand of || is
\* truthy, the very next step yields the result (false for &&, true for ||)
\* and the right operand is never entered: no frame is pushed for it, the
\* host hears nothing, no error is raised and no variable changes, even
\* when the right operand on its own would fail.
C15_ShortCircuit ==
    /\ [][(pc = "running" /\ ctl.c = "val" /\ kont # <<>>
             /\ kont[Len(kont)].k = "BinLeftK"
             /\ \/ kont[Len(kont)].d.op = "And" /\ ~is_truthy(ctl.v)
                \/ kont[Len(kont)].d.op = "Or" /\ is_truthy(ctl.v)) =>
            /\ ctl' = CtlVal(BoolV(kont[Len(kont)].d.op = "Or"))
            /\ kont' = SubSeq(kont, 1, Len(kont) - 1)
            /\ host' = host
            /\ hist'.raised = hist.raised
            /\ hist'.calls = hist.calls
            /\ scopes' = scopes]_vars
    /\ []((pc = "done" /\ source = P_short /\ limits.max_steps = MaxStepsLarge
              /\ cfg.tick_fail = 0) =>
            /\ host.prints = <<<<"f", "a", "l", "s", "e">>, <<"t", "r", "u", "e">>,
                               <<"f", "a", "l", "s", "e">>, <<"t", "r", "u", "e">>,
                               <<"s", "i", "d", "e">>, <<"t", "r", "u", "e">>>>
            /\ hist.calls = 1
            /\ host.calls = 1
            /\ hist.raised = 1
            /\ hist.first_err.msg = "Variable {} not found")

\* four right operands that would have failed or printed were skipped
\* (an undefined variable, a call of f, a call of greet without arguments
\* under the host that handles greet, a division by zero); the first error
\* is that of the right operand of `false || nope`, which is evaluated
C15_Witness ==
    /\ pc = "done"
    /\ source = P_short
    /\ cfg.kind = "CustomHost"
    /\ Len(host.prints) = 6
    /\ host.prints[1] = <<"f", "a", "l", "s", "e">>
    /\ host.prints[4] = <<"t", "r", "u", "e">>
    /\ host.calls = 1
    /\ hist.raised = 1
    /\ result.e.msg = "Variable {} not found"

\* C16: a break or continue signal goes up through the blocks and if-blocks
\* around it unchanged (the rest of each block is skipped).  The first loop
\* it meets takes it: break ends that loop and nothing else (the statement
\* after the loop is next), continue starts the next turn of that loop (or
\* ends it when no turn is left).  When it meets the end of a function body
\* or of the program instead, the run fails with break / continue used
\* outside of a loop; an error never turns back into execution, so no loop
\* of the caller takes another turn.
C16_BreakContinue ==
    /\ [][(pc = "running" /\ ctl.c = "sig" /\ ctl.s \in {"Break", "Continue"}
             /\ kont # <<>>) =>
            LET f == kont[Len(kont)]
                rest == SubSeq(kont, 1, Len(kont) - 1)
                ended == CtlSig("None", NoneV)
            IN CASE f.k \in {"BlockK", "IfBodyK"} -> ctl' = ctl /\ kont' = rest
                 [] f.k = "WhileBodyK" ->
                       /\ kont' = rest
                       /\ ctl' = IF ctl.s = "Break" THEN ended
                                 ELSE [c |-> "while_iter", stmt |-> f.d]
                 [] f.k = "RepeatBodyK" ->
                       /\ kont' = rest
                       /\ ctl' = IF ctl.s = "Break" \/ f.d.remaining <= 0 THEN ended
                                 ELSE [c |-> "repeat_iter", stmt |-> f.d.stmt,
                                       remaining |-> f.d.remaining]
                 [] f.k = "ForLoopK" ->
                       IF ctl.s = "Break" \/ Len(f.vals) <= 1
                       THEN kont' = rest /\ ctl' = ended
                       ELSE kont' = kont /\ ctl' = [c |-> "for_iter"]
                 [] f.k = "CallK" ->
                       /\ kont' = rest
                       /\ ctl' = CtlErr(error(IF ctl.s = "Break" THEN BreakOutsideMsg
                                              ELSE ContinueOutsideMsg))
                       /\ call_depth' = call_depth - 1]_vars
    /\ [][(pc = "running" /\ ctl.c = "sig" /\ ctl.s \in {"Break", "Continue"}
             /\ kont = <<>>) =>
            /\ pc' = "done"
            /\ result' = Err(error(IF ctl.s = "Break" THEN BreakOutsideMsg
                                   ELSE ContinueOutsideMsg))]_vars
    /\ [][(pc = "running" /\ ctl.c = "err") =>
            /\ ctl'.c \in {"err", "idle"}
            /\ hist'.loop_iters = hist.loop_iters
            /\ hist'.stmt_execs = hist.stmt_execs
            /\ host'.prints = host.prints]_vars
    /\ []((pc = "done" /\ source = P_loops /\ limits.max_steps = MaxStepsLarge
              /\ cfg.tick_fail = 0) =>
            /\ host.prints = <<<<"1">>, <<"1">>, <<"e">>, <<"e">>, <<"3">>, <<"3">>,
                               <<"w">>>>
            /\ hist.calls = 1
            /\ result = Err(error(ContinueOutsideMsg)))

\* break has ended the inner repeat only (e is printed for x = 2 and the
\* for loop went on to 3), continue has skipped the rest of a turn of the
\* for loop and of the while loop, and the continue of g, called from a
\* while loop, has ended the run with an error in the first turn of that loop
C16_Witness ==
    /\ pc = "done"
    /\ source = P_loops
    /\ host.prints = <<<<"1">>, <<"1">>, <<"e">>, <<"e">>, <<"3">>, <<"3">>, <<"w">>>>
    /\ hist.calls = 1
    /\ result = Err(error(ContinueOutsideMsg))

\* C17: a return signal goes up unchanged, with its value, through every
\* block, if-block and loop of the body (each loop ends at once, the rest
\* of each block is skipped) until it meets the call, whose value it
\* becomes; a body whose last statement ends without a return makes the
\* call yield None.
C17_Return ==
    /\ [][(pc = "running" /\ ctl.c = "sig" /\ ctl.s = "Return" /\ kont # <<>>) =>
            /\ kont' = SubSeq(kont, 1, Len(kont) - 1)
            /\ IF kont[Len(kont)].k = "CallK"
               THEN ctl' = CtlVal(ctl.v) /\ call_depth' = call_depth - 1
               ELSE /\ kont[Len(kont)].k \in
                         {"BlockK", "IfBodyK", "WhileBodyK", "RepeatBodyK", "ForLoopK"}
                    /\ ctl' = ctl
                    /\ call_depth' = call_depth]_vars
    /\ [][(pc = "running" /\ ctl.c = "sig" /\ ctl.s = "None" /\ kont # <<>>
             /\ kont[Len(kont)].k = "CallK") =>
            /\ ctl' = CtlVal(NoneV)
            /\ kont' = SubSeq(kont, 1, Len(kont) - 1)
            /\ call_depth' = call_depth - 1]_vars
    /\ []((pc = "done" /\ source = P_return /\ limits.max_steps = MaxStepsLarge
              /\ cfg.tick_fail = 0) =>
            /\ host.prints = <<<<"1">>, <<"2", "0">>, <<"n", "o", "n", "e">>,
                               <<"n", "o", "n", "e">>, <<"1">>, <<"e", "n", "d">>,
                               <<"n", "o", "n", "e">>>>
            /\ result = Ok)

\* find has returned 20 from inside repeat, if, while and for at its
\* second element (3 and end were never printed in that call), nothing and
\* bare and the second call of find have yielded None
C17_Witness ==
    /\ pc = "done"
    /\ source = P_return
    /\ result = Ok
    /\ hist.calls = 4
    /\ Len(host.prints) = 7
    /\ host.prints[2] = <<"2", "0">>
    /\ host.prints[3] = <<"n", "o", "n", "e">>
    /\ host.prints[6] = <<"e", "n", "d">>

\* C18: when a method call has its receiver and arguments, the call yields
\* what call_method returns for them.  If the method is one of push, pop,
\* insert, remove, reverse, sort, the receiver is an array and the receiver
\* expression is a bare identifier, the innermost binding of that
\* identifier then holds the mutated array and nothing else changes; in
\* every other case (another receiver expression, another method, a failed
\* call) no variable changes.  For the program below: a goes through
\* [3,1,2,5], [3,1,2], [3,9,1,2], [9,1,2], [2,1,9], [1,2,9]; the calls on
\* m[0], m[1], a literal and a call result return their results (3, none, 5)
\* and leave m as it was; len, has and join leave a as it was.
C18_MethodWriteBack ==
    /\ [][(pc = "running" /\ ctl.c = "val" /\ kont # <<>>
             /\ kont[Len(kont)].k = "MethodObjK") =>
            LET f == kont[Len(kont)]
                r == call_method(ctl.v, f.d.method, f.vals)
            IN /\ ctl' = IF r.ok THEN CtlVal(r.v) ELSE CtlErr(r.e)
               /\ IF /\ r.ok
                     /\ ctl.v.t = "array"
                     /\ f.d.method \in {"push", "pop", "insert", "remove", "reverse", "sort"}
                     /\ f.d.object.kind = "Ident"
                  THEN /\ r.some
                       /\ get_var(M, f.d.object.name) > 0
                       /\ scopes' = [scopes EXCEPT
                                       ![get_var(M, f.d.object.name)][f.d.object.name] =
                                           r.mutated]
                  ELSE scopes' = scopes]_vars
    /\ []((pc = "done" /\ source = P_methods /\ limits = [max_steps |-> MaxStepsLarge,
                                                         max_memory |-> MemLarge]
              /\ cfg.tick_fail = 0) =>
            /\ result = Ok
            /\ host.prints =
                 <<<<"5">>, <<"3">>,
                   <<"[", "2", ",", " ", "1", ",", " ", "9", "]">>,
                   <<"[", "1", ",", " ", "2", ",", " ", "9", "]">>,
                   <<"3">>, <<"n", "o", "n", "e">>, <<"5">>,
                   <<"[", "[", "1", ",", " ", "2", "]", ",", " ",
                     "[", "4", ",", " ", "3", "]", "]">>,
                   <<"3", " ", "t", "r", "u", "e", " ", "1", "-", "2", "-", "9">>,
                   <<"[", "1", ",", " ", "2", ",", " ", "9", "]">>>>)

\* all six mutating methods have been called on the variable a, and pop,
\* push, sort on receivers that are not identifiers; the run has ended with
\* a sorted and m as it was declared
C18_Witness ==
    /\ pc = "done"
    /\ source = P_methods
    /\ result = Ok
    /\ Len(host.prints) = 10
    /\ host.prints[4] = <<"[", "1", ",", " ", "2", ",", " ", "9", "]">>
    /\ host.prints[8] = <<"[", "[", "1", ",", " ", "2", "]", ",", " ",
                          "[", "4", ",", " ", "3", "]", "]">>

\* the store of an indexed assignment is about to happen: the new value and
\* the index have been evaluated and, for a compound assignment, the object
StoreFrame == kont[Len(kont)]
AtPlainStore ==
    /\ pc = "running" /\ ctl.c = "val" /\ kont # <<>>
    /\ StoreFrame.k = "AssignIdxK" /\ StoreFrame.d.op = "Eq"
AtCompoundStore ==
    /\ pc = "running" /\ ctl.c = "val" /\ kont # <<>>
    /\ StoreFrame.k = "AssignObjK"

\* old with the slot or key idx holding val; every other slot as before, a
\* new key last (capacities set aside)
SlotReplaced(old, idx, val) ==
    IF old.t = "array"
    THEN ArrV([old.items EXCEPT
                 ![IF idx.n < 0 THEN Len(old.items) + idx.n + 1 ELSE idx.n + 1] = val], 0)
    ELSE IF KeyIndex(old.entries, idx.s) > 0
    THEN DictV([old.entries EXCEPT ![KeyIndex(old.entries, idx.s)].v = val], 0)
    ELSE DictV(Append(old.entries, DEntry(idx.s, 0, val)), 0)

\* the slot exists (array) or the key is a string (dict)
StoreOk(old, idx) ==
    \/ /\ old.t = "array" /\ idx.t = "number"
       /\ (IF idx.n < 0 THEN Len(old.items) + idx.n ELSE idx.n) >= 0
       /\ (IF idx.n < 0 THEN Len(old.items) + idx.n ELSE idx.n) < Len(old.items)
    \/ old.t = "dict" /\ idx.t = "string"

\* after the step, the innermost binding of name holds w (capacities set
\* aside) and every other binding is as before
OnlyBindingIs(name, w) ==
    /\ Len(scopes') = Len(scopes)
    /\ \A i \in 1..Len(scopes) :
          /\ DOMAIN scopes'[i] = DOMAIN scopes[i]
          /\ \A x \in DOMAIN scopes[i] :
                IF i = get_var(M, name) /\ x = name
                THEN CloneValue(scopes'[i][x]) = CloneValue(w)
                ELSE scopes'[i][x] = scopes[i][x]

\* C19 (as the spec states it): the store of an indexed assignment, plain
\* or compound, whose object is not a bare identifier fails with "Can only
\* assign to indexed variables" and changes no variable.
C19_OnlyVariables ==
    [][((AtPlainStore \/ AtCompoundStore)
          /\ StoreFrame.d.target.object.kind # "Ident") =>
         /\ ctl' = CtlErr(error(CanOnlyAssignMsg))
         /\ scopes' = scopes]_vars

\* C19 (amended): the store of an indexed assignment succeeds only when
\* the object is a bare identifier; the variable then holds its previous
\* value with the slot or key replaced (a new dict key last), every other
\* slot and every other variable unchanged.  When the object is any other
\* expression the store fails and changes no variable: a plain assignment
\* fails with "Can only assign to indexed variables"; a compound
\* assignment first reads object[index] and applies the operator, so it
\* fails with the error of that read or of the operator when there is one,
\* and with "Can only assign to indexed variables" otherwise.  What the
\* evaluation of the new value did before the store stays done.
C19_IndexedAssign ==
    /\ [][(AtPlainStore /\ StoreFrame.d.target.object.kind # "Ident") =>
            /\ ctl' = CtlErr(error(CanOnlyAssignMsg))
            /\ scopes' = scopes]_vars
    /\ [][(AtCompoundStore /\ StoreFrame.d.target.object.kind # "Ident") =>
            LET idx == StoreFrame.vals[2]
                cur == index_into(ctl.v, idx)
                r == apply_compound_op(bop_alloc(USED, DropBytes(cur.v)), LIMIT, cur.v,
                                       StoreFrame.d.op, StoreFrame.vals[1])
            IN /\ scopes' = scopes
               /\ ctl' = CtlErr(IF ~cur.ok THEN cur.e
                                ELSE IF ~r.ok THEN r.e
                                ELSE error(CanOnlyAssignMsg))]_vars
    /\ [][(AtPlainStore /\ StoreFrame.d.target.object.kind = "Ident"
             /\ get_var(M, StoreFrame.d.target.object.name) > 0) =>
            LET name == StoreFrame.d.target.object.name
                old == VarValue(M, name)
            IN IF StoreOk(old, ctl.v)
               THEN /\ ctl' = CtlSig("None", NoneV)
                    /\ OnlyBindingIs(name, SlotReplaced(old, ctl.v, StoreFrame.vals[1]))
               ELSE ctl'.c = "err" /\ scopes' = scopes]_vars
    /\ [][(AtCompoundStore /\ StoreFrame.d.target.object.kind = "Ident") =>
            LET name == StoreFrame.d.target.object.name
                idx == StoreFrame.vals[2]
                cur == index_into(ctl.v, idx)
                r == apply_compound_op(bop_alloc(USED, DropBytes(cur.v)), LIMIT, cur.v,
                                       StoreFrame.d.op, StoreFrame.vals[1])
            IN IF cur.ok /\ r.ok
               THEN /\ ctl' = CtlSig("None", NoneV)
                    /\ OnlyBindingIs(name, SlotReplaced(VarValue(M, name), idx, r.v))
               ELSE ctl'.c = "err" /\ scopes' = scopes]_vars
    /\ []((pc = "running" /\ source = P_idx_side /\ ctl.c = "err"
              /\ hist.err_src = "op") =>
            /\ ctl.e = error(CanOnlyAssignMsg)
            /\ Len(scopes[1]["a"].items) = 1)

\* m[1] = [4], d["b"] = 2, d["a"] = 5 and m[-2] = 0 have been stored (the new
\* key b is last), and m[1][0] = 9 has ended the run with the error
C19_Witness ==
    /\ pc = "done"
    /\ source = P_idx_plain
    /\ host.prints =
         <<<<"[", "0", ",", " ", "[", "4", "]", "]">>,
           <<"{", "\"", "a", "\"", ":", " ", "5", ",", " ", "\"", "b", "\"", ":", " ",
             "2", "}">>>>
    /\ result = Err(error(CanOnlyAssignMsg))

\* C20: a for loop keeps the elements of its iterable in its own frame from
\* the moment the iterable has been evaluated: the items of the array, or
\* the characters of the string, in order.  Each turn binds the first item
\* still in the frame to the loop variable in a new scope and removes it
\* from the frame; nothing else ever changes the frame, whatever the body
\* does to the variable that was iterated; the loop ends normally when the
\* frame holds no item.  For the program below each body runs once per
\* element of the value at loop entry (1 2 3, then 1 2, then a b) although
\* the bodies push to, store into and reassign the iterated variables.
C20_ForSnapshot ==
    /\ [][(pc = "running" /\ ctl.c = "val" /\ kont # <<>>
             /\ kont[Len(kont)].k = "ForIterableK"
             /\ ctl.v.t \in {"array", "string"}) =>
            LET items == IF ctl.v.t = "array" THEN ctl.v.items
                         ELSE [i \in 1..Len(ctl.v.s) |-> new_str(<<ctl.v.s[i]>>, 1)]
            IN IF items = <<>>
               THEN /\ ctl' = CtlSig("None", NoneV)
                    /\ kont' = SubSeq(kont, 1, Len(kont) - 1)
               ELSE /\ ctl' = [c |-> "for_iter"]
                    /\ Len(kont') = Len(kont)
                    /\ kont'[Len(kont)].k = "ForLoopK"
                    /\ SubSeq(kont'[Len(kont)].vals, 2, Len(kont'[Len(kont)].vals)) = items]_vars
    /\ [][(pc = "running" /\ ctl.c = "for_iter" /\ ctl'.c # "err") =>
            LET f == kont[Len(kont)]
            IN /\ f.k = "ForLoopK"
               /\ Len(f.vals) >= 2
               /\ scopes' = Append(scopes, [x \in {f.d.var} |-> f.vals[2]])
               /\ kont' = [kont EXCEPT ![Len(kont)].vals =
                              <<f.vals[1]>> \o SubSeq(f.vals, 3, Len(f.vals))]
               /\ ctl' = CtlBlock(f.d.body, 1)]_vars
    /\ [][\A i \in 1..Len(kont) :
            (kont[i].k = "ForLoopK" /\ i <= Len(kont') /\ kont'[i] # kont[i]) =>
               (i = Len(kont) /\ ctl.c = "for_iter")]_vars
    /\ [][(pc = "running" /\ ctl.c = "sig" /\ ctl.s \in {"None", "Continue"}
             /\ kont # <<>> /\ kont[Len(kont)].k = "ForLoopK") =>
            IF Len(kont[Len(kont)].vals) <= 1
            THEN ctl' = CtlSig("None", NoneV) /\ kont' = SubSeq(kont, 1, Len(kont) - 1)
            ELSE ctl' = [c |-> "for_iter"] /\ kont' = kont]_vars
    /\ []((pc = "done" /\ source = P_for_snapshot
              /\ limits = [max_steps |-> MaxStepsLarge, max_memory |-> MemLarge]
              /\ cfg.tick_fail = 0) =>
            /\ result = Ok
            /\ host.prints =
                 <<<<"1">>, <<"2">>, <<"3">>,
                   <<"[", "9", ",", " ", "2", ",", " ", "3", ",", " ", "1", ",", " ",
                     "2", ",", " ", "3", "]">>,
                   <<"1">>, <<"2">>, <<"[", "]">>,
                   <<"a">>, <<"b">>, <<"a", "b", "x", "x">>>>)

\* the three loops have run over 1 2 3, over 1 2 and over a b while their
\* bodies grew a, emptied b and lengthened s
C20_Witness ==
    /\ pc = "done"
    /\ source = P_for_snapshot
    /\ result = Ok
    /\ hist.loop_iters = 7
    /\ Len(host.prints) = 10
    /\ host.prints[3] = <<"3">>
    /\ host.prints[7] = <<"[", "]">>
    /\ host.prints[10] = <<"a", "b", "x", "x">>

\* C21: the count of repeat is evaluated once.  When its value arrives the
\* loop is given max(0, trunc(N)) turns (an error if it is not a number);
\* each turn takes one from the turns left and runs the body, and when the
\* body ends without break or return the loop goes on with the turns left
\* in its frame, never evaluating the count again.  For the program below:
\* the body changes n from 2 to 12 and still runs twice, 2.5 gives two
\* turns, -1, -0.5 and 0 give none.
C21_RepeatOnce ==
    /\ [][(pc = "running" /\ ctl.c = "val" /\ kont # <<>>
             /\ kont[Len(kont)].k = "RepeatCountK") =>
            /\ kont' = SubSeq(kont, 1, Len(kont) - 1)
            /\ IF ctl.v.t # "number"
               THEN ctl'.c = "err"
               ELSE IF ctl.v.n >= 1
               THEN ctl' = [c |-> "repeat_iter", stmt |-> kont[Len(kont)].d,
                            remaining |-> ctl.v.n]
               ELSE ctl' = CtlSig("None", NoneV)]_vars
    /\ [][(pc = "running" /\ ctl.c = "repeat_iter") =>
            \/ ctl'.c = "err"
            \/ /\ ctl' = CtlBlock(ctl.stmt.body, 1)
               /\ Len(kont') = Len(kont) + 1
               /\ kont'[Len(kont')].k = "RepeatBodyK"
               /\ kont'[Len(kont')].d = [stmt |-> ctl.stmt,
                                         remaining |-> ctl.remaining - 1]]_vars
    /\ [][(pc = "running" /\ ctl.c = "sig" /\ ctl.s \in {"None", "Continue"}
             /\ kont # <<>> /\ kont[Len(kont)].k = "RepeatBodyK") =>
            /\ kont' = SubSeq(kont, 1, Len(kont) - 1)
            /\ IF kont[Len(kont)].d.remaining >= 1
               THEN ctl' = [c |-> "repeat_iter", stmt |-> kont[Len(kont)].d.stmt,
                            remaining |-> kont[Len(kont)].d.remaining]
               ELSE ctl' = CtlSig("None", NoneV)]_vars
    /\ []((pc = "done" /\ source = P_repeat_once /\ limits.max_steps = MaxStepsLarge
              /\ cfg.tick_fail = 0) =>
            /\ host.prints = <<<<"r">>, <<"r">>, <<"h">>, <<"h">>, <<"1", "2">>>>
            /\ result = Ok)

\* the body has changed the variable of the count and has run twice, 2.5
\* has given two turns and the three counts below 1 none
C21_Witness ==
    /\ pc = "done"
    /\ source = P_repeat_once
    /\ result = Ok
    /\ host.prints = <<<<"r">>, <<"r">>, <<"h">>, <<"h">>, <<"1", "2">>>>

\* The frames of bodies that are open above the innermost call: each holds
\* one scope, except a for loop that is between two turns
BodyKinds == {"IfBodyK", "WhileBodyK", "RepeatBodyK", "ForLoopK"}
RECURSIVE OpenBodies(_)
OpenBodies(i) ==
    IF i = 0 \/ kont[i].k = "CallK" THEN 0
    ELSE (IF kont[i].k \in BodyKinds
             /\ ~(kont[i].k = "ForLoopK" /\ i = Len(kont) /\ ctl.c = "for_iter")
          THEN 1 ELSE 0) + OpenBodies(i - 1)

\* C22: a block has a scope of its own.  Entering the body of an if, while,
\* repeat or for puts one fresh scope on the stack (holding the loop
\* variable, for a for loop); a let writes into the innermost scope only;
\* when the body ends, with whatever signal, exactly that innermost scope is
\* removed and every other scope is left as the body made it, so the names
\* created in the block are gone and the assignments to outer names stay.
\* The depth of the scope stack is fixed by the open bodies, so it is the
\* same after a statement as before it.
C22_BlockScope ==
    /\ []((pc = "running" /\ ctl.c \notin {"err", "idle"}) =>
            Len(scopes) = 1 + OpenBodies(Len(kont)))
    /\ [][(pc = "running" /\ ctl.c = "sig" /\ kont # <<>>
             /\ kont[Len(kont)].k \in BodyKinds) =>
            scopes' = SubSeq(scopes, 1, Len(scopes) - 1)]_vars
    /\ [][(pc = "running" /\ ctl'.c = "exec_block" /\ Len(scopes') = Len(scopes) + 1) =>
            /\ SubSeq(scopes', 1, Len(scopes)) = scopes
            /\ kont'[Len(kont')].k \in BodyKinds
            /\ IF kont'[Len(kont')].k = "ForLoopK"
               THEN DOMAIN scopes'[Len(scopes')] = {kont'[Len(kont')].d.var}
               ELSE scopes'[Len(scopes')] = EmptyScope]_vars
    /\ [][(pc = "running" /\ ctl.c = "val" /\ kont # <<>> /\ kont[Len(kont)].k = "LetK") =>
            /\ Len(scopes') = Len(scopes)
            /\ SubSeq(scopes', 1, Len(scopes) - 1) = SubSeq(scopes, 1, Len(scopes) - 1)
            /\ kont[Len(kont)].d.name \in DOMAIN scopes'[Len(scopes')]]_vars
    /\ []((pc = "done" /\ source = P_block_scope /\ limits.max_steps = MaxStepsLarge
              /\ cfg.tick_fail = 0) =>
            /\ host.prints = <<<<"1", "0", "1">>, <<"1", "6">>>>
            /\ result = Err(error_with_hint("Variable {} not found",
                                            "Did you forget to create it with let?")))

\* the assignments made inside the four blocks have reached the outer a
\* (16), the a of the repeat body was another one (101), and the variable
\* of the for loop is not found after the loop
C22_Witness ==
    /\ pc = "done"
    /\ source = P_block_scope
    /\ host.prints = <<<<"1", "0", "1">>, <<"1", "6">>>>
    /\ result = Err(error_with_hint("Variable {} not found",
                                    "Did you forget to create it with let?"))

RECURSIVE KeysDistinct(_)
KeysDistinct(v) ==
    CASE v.t = "dict" ->
            /\ \A i, j \in 1..Len(v.entries) :
                  i # j => v.entries[i].k # v.entries[j].k
            /\ \A i \in 1..Len(v.entries) : KeysDistinct(v.entries[i].v)
      [] v.t = "array" -> \A i \in 1..Len(v.items) : KeysDistinct(v.items[i])
      [] OTHER -> TRUE

\* C23: every dict that a variable holds or that an expression has just
\* yielded, at any depth of nesting, has pairwise distinct keys.
C23_DistinctKeys ==
    /\ \A i \in 1..Len(scopes) : \A x \in DOMAIN scopes[i] : KeysDistinct(scopes[i][x])
    /\ (pc = "running" /\ ctl.c = "val") => KeysDistinct(ctl.v)

\* The dicts a and b have the same key set and every key maps to equal
\* values in both
SameDict(a, b) ==
    /\ {a.entries[i].k : i \in 1..Len(a.entries)}
          = {b.entries[j].k : j \in 1..Len(b.entries)}
    /\ \A i \in 1..Len(a.entries) : \A j \in 1..Len(b.entries) :
          a.entries[i].k = b.entries[j].k
             => values_equal(a.entries[i].v, b.entries[j].v)

\* C24: whenever == or != is about to be applied to two dicts, values_equal
\* is true of them exactly when they have the same key set and every key
\* maps to equal values in both.
C24_DictEquality ==
    (pc = "running" /\ ctl.c = "val" /\ kont # <<>>
        /\ kont[Len(kont)].k = "BinRightK" /\ kont[Len(kont)].d.op \in {"Eq", "NotEq"}
        /\ kont[Len(kont)].vals[1].t = "dict" /\ ctl.v.t = "dict")
    => (values_equal(kont[Len(kont)].vals[1], ctl.v)
           <=> SameDict(kont[Len(kont)].vals[1], ctl.v))

\* C25: every value that a variable holds or that an expression has just
\* yielded is equal to itself.
C25_Reflexive ==
    /\ \A i \in 1..Len(scopes) : \A x \in DOMAIN scopes[i] :
          values_equal(scopes[i][x], scopes[i][x])
    /\ (pc = "running" /\ ctl.c = "val") => values_equal(ctl.v, ctl.v)

\* A call of range with one to three numbers is next
AtRange ==
    /\ pc = "running" /\ ctl.c = "call" /\ ctl.name = "range"
    /\ Len(ctl.args) \in {1, 2, 3} /\ AllNumbers(ctl.args)

\* start, end and step of the call, in halves
RangeStart == IF Len(ctl.args) = 1 THEN 0 ELSE Halves(ctl.args[1])
RangeEnd == IF Len(ctl.args) = 1 THEN Halves(ctl.args[1]) ELSE Halves(ctl.args[2])
RangeStep ==
    IF Len(ctl.args) = 3 THEN Halves(ctl.args[3])
    ELSE IF Len(ctl.args) = 1 \/ RangeStart <= RangeEnd THEN 2 ELSE -2

\* x has not reached the end b when going by s
Before(x, b, s) == IF s > 0 THEN x < b ELSE x > b

\* C26: a call of range with one to three numbers fails when a third
\* argument is 0 and otherwise yields an array of numbers that starts at
\* the start (0 for one argument), goes on by the step (1 upwards, -1
\* downwards when there is no third argument), holds only numbers that
\* have not reached the end, stops only at the end or at 10,000 elements,
\* and never has more than 10,000 elements.
C26_Range ==
    /\ [][AtRange =>
            IF RangeStep = 0 THEN ctl'.c = "err"
            ELSE /\ ctl'.c = "val" /\ ctl'.v.t = "array"
                 /\ Len(ctl'.v.items) <= 10000
                 /\ \A i \in 1..Len(ctl'.v.items) :
                       /\ ctl'.v.items[i].t = "number"
                       /\ Halves(ctl'.v.items[i]) = RangeStart + (i - 1) * RangeStep
                       /\ Before(Halves(ctl'.v.items[i]), RangeEnd, RangeStep)
                 /\ Len(ctl'.v.items) < 10000 =>
                       ~Before(RangeStart + Len(ctl'.v.items) * RangeStep,
                               RangeEnd, RangeStep)]_vars
    /\ []((pc = "done" /\ source = P_range_forms /\ limits.max_steps = MaxStepsLarge
              /\ limits.max_memory = MemLarge /\ cfg.tick_fail = 0) =>
            /\ Len(host.prints) = 10
            /\ host.prints[1] = <<"[", "0", ",", " ", "1", ",", " ", "2", ",", " ", "3",
                                  ",", " ", "4", "]">>
            /\ host.prints[2] = <<"[", "]">>
            /\ host.prints[3] = <<"[", "]">>
            /\ host.prints[4] = <<"[", "2", ",", " ", "3", ",", " ", "4", "]">>
            /\ host.prints[5] = <<"[", "5", ",", " ", "4", ",", " ", "3", ",", " ", "2",
                                  ",", " ", "1", "]">>
            /\ host.prints[6] = <<"[", "]">>
            /\ host.prints[7] = <<"[", "0", ",", " ", "3", ",", " ", "6", ",", " ", "9", "]">>
            /\ host.prints[8] = <<"[", "1", "0", ",", " ", "7", ",", " ", "4", ",", " ",
                                  "1", "]">>
            /\ host.prints[9] = <<"[", "]">>
            /\ host.prints[10] = <<"[", "0", ",", " ", "1", ",", " ", "2", "]">>
            /\ result = Err(error("range step cannot be 0")))

\* all ten forms have been printed and the step 0 has failed
C26_Witness ==
    /\ pc = "done"
    /\ source = P_range_forms
    /\ Len(host.prints) = 10
    /\ host.prints[5] = <<"[", "5", ",", " ", "4", ",", " ", "3", ",", " ", "2",
                          ",", " ", "1", "]">>
    /\ result = Err(error("range step cannot be 0"))

\* The number of elements that the arguments of the call describe
RangeDescribed ==
    LET span == IF RangeStep > 0 THEN RangeEnd - RangeStart ELSE RangeStart - RangeEnd
        st == IF RangeStep > 0 THEN RangeStep ELSE 0 - RangeStep
    IN IF span <= 0 THEN 0 ELSE (span + st - 1) \div st

\* C27: a call of range whose arguments describe more than 10,000 elements
\* ends with an error and hands no array to the program.
C27_RangeCapError ==
    [][(AtRange /\ RangeStep # 0 /\ RangeDescribed > 10000) => ctl'.c = "err"]_vars

\* C27 (amended): a call of range whose arguments describe more than 10,000
\* elements does not fail: it hands the program an array of exactly the
\* first 10,000 elements.  The execution halts only when a later tick finds
\* the ledger above max_memory, with the memory-limit error of that tick.
\* For the program below: len of the array is printed as 10000; the second
\* array is bound to r and takes the ledger over the limit, which the tick
\* of the next statement reports.
C27_RangeCapTruncates ==
    /\ [][(AtRange /\ RangeStep # 0 /\ RangeDescribed > 10000) =>
            /\ ctl'.c = "val" /\ ctl'.v.t = "array"
            /\ Len(ctl'.v.items) = 10000
            /\ \A i \in 1..10000 :
                  Halves(ctl'.v.items[i]) = RangeStart + (i - 1) * RangeStep
            /\ kont' = kont /\ scopes' = scopes /\ host' = host]_vars
    /\ []((pc = "done" /\ source = P_range_cap /\ limits.max_steps = MaxStepsLarge
              /\ cfg.tick_fail = 0) =>
            /\ host.prints = <<<<"1", "0", "0", "0", "0">>>>
            /\ hist.err_src = "tick"
            /\ result = Err(error_with_hint(MemoryLimitMsg,
                  "Your code is using too much memory. Check for large strings or arrays growing in loops.")))

\* the program has used the length of the truncated array and has been
\* stopped by the tick after the second one was bound
C27_Witness ==
    /\ pc = "done"
    /\ source = P_range_cap
    /\ host.prints = <<<<"1", "0", "0", "0", "0">>>>
    /\ hist.err_src = "tick"
    /\ result.e.msg = MemoryLimitMsg

\* C28: evaluation follows the source.  A block goes to its statement i+1
\* when statement i has ended without a signal; a binary operator (other
\* than && and ||) evaluates its left operand, keeps the value and then
\* evaluates the right one; a call evaluates its arguments from the first
\* to the last and enters the callee only with all the values; a dict
\* literal evaluates its values from the first entry to the last and the
\* dict holds the entries in that order.  For the program below the
\* operands announce themselves by printing.
C28_SourceOrder ==
    /\ [][(pc = "running" /\ ctl.c = "exec_block" /\ ctl.i <= Len(ctl.stmts)) =>
            ctl' = CtlStmt(ctl.stmts[ctl.i])]_vars
    /\ [][(pc = "running" /\ ctl.c = "sig" /\ ctl.s = "None" /\ kont # <<>>
             /\ kont[Len(kont)].k = "BlockK") =>
            ctl' = CtlBlock(kont[Len(kont)].d.stmts, kont[Len(kont)].d.i + 1)]_vars
    /\ [][(pc = "running" /\ ctl.c = "eval" /\ ctl.e.kind = "BinaryOp") =>
            ctl' = CtlEval(ctl.e.left)]_vars
    /\ [][(pc = "running" /\ ctl.c = "val" /\ kont # <<>>
             /\ kont[Len(kont)].k = "BinLeftK"
             /\ kont[Len(kont)].d.op \notin {"And", "Or"}) =>
            /\ ctl' = CtlEval(kont[Len(kont)].d.right)
            /\ kont'[Len(kont')] = Frame("BinRightK", <<ctl.v>>, kont[Len(kont)].d)]_vars
    /\ [][(pc = "running" /\ ctl.c = "eval" /\ ctl.e.kind = "Call"
             /\ ctl.e.callee.kind = "Ident" /\ ctl.e.args # <<>>) =>
            ctl' = CtlEval(ctl.e.args[1])]_vars
    /\ [][(pc = "running" /\ ctl.c = "val" /\ kont # <<>>
             /\ kont[Len(kont)].k = "ArgsK") =>
            IF Len(kont[Len(kont)].vals) + 1 < Len(kont[Len(kont)].d.args)
            THEN /\ ctl' = CtlEval(kont[Len(kont)].d.args[Len(kont[Len(kont)].vals) + 2])
                 /\ kont'[Len(kont')].vals = Append(kont[Len(kont)].vals, ctl.v)
            ELSE ctl' = CtlCall(kont[Len(kont)].d.callee.name,
                                Append(kont[Len(kont)].vals, ctl.v))]_vars
    /\ [][(pc = "running" /\ ctl.c = "val" /\ kont # <<>>
             /\ kont[Len(kont)].k = "DictK") =>
            IF Len(kont[Len(kont)].vals) + 1 < Len(kont[Len(kont)].d.entries)
            THEN /\ ctl' = CtlEval(kont[Len(kont)].d.entries[
                                      Len(kont[Len(kont)].vals) + 2].value)
                 /\ kont'[Len(kont')].vals = Append(kont[Len(kont)].vals, ctl.v)
            ELSE /\ ctl'.c = "val" /\ ctl'.v.t = "dict"
                 /\ Len(ctl'.v.entries) = Len(kont[Len(kont)].d.entries)
                 /\ \A i \in 1..Len(ctl'.v.entries) :
                       /\ ctl'.v.entries[i].k = kont[Len(kont)].d.entries[i].key
                       /\ ctl'.v.entries[i].v = Append(kont[Len(kont)].vals, ctl.v)[i]]_vars
    /\ []((pc = "done" /\ source = P_order /\ limits.max_steps = MaxStepsLarge
              /\ limits.max_memory = MemLarge /\ cfg.tick_fail = 0) =>
            /\ host.prints = <<<<"1">>, <<"2">>, <<"-", "1">>,
                               <<"7">>, <<"3">>, <<"f">>, <<"4">>,
                               <<"5">>, <<"6">>,
                               <<"{", "\"", "k", "\"", ":", " ", "5", ",", " ",
                                 "\"", "a", "\"", ":", " ", "6", "}">>>>
            /\ result = Ok)

\* the operands have printed in source order before each result: 1 and 2
\* before their difference, 7 and 3 before f, 5 and 6 before the dict
C28_Witness ==
    /\ pc = "done"
    /\ source = P_order
    /\ result = Ok
    /\ Len(host.prints) = 10
    /\ host.prints[3] = <<"-", "1">>
    /\ host.prints[6] = <<"f">>
    /\ host.prints[10] = <<"{", "\"", "k", "\"", ":", " ", "5", ",", " ",
                           "\"", "a", "\"", ":", " ", "6", "}">>

\* The statement nodes of ss that are not inside a function body, in source
\* order
RECURSIVE OuterNodes(_)
RECURSIVE OuterNodesOfBranches(_)
OuterNodesOfBranches(else_ifs) ==
    IF else_ifs = <<>> THEN <<>>
    ELSE OuterNodes(Head(else_ifs).body) \o OuterNodesOfBranches(Tail(else_ifs))
OuterNodes(ss) ==
    IF ss = <<>> THEN <<>>
    ELSE <<Head(ss).kind>>
         \o (CASE Head(ss).kind = "FnDecl" -> <<>>
               [] Head(ss).kind = "If" ->
                     OuterNodes(Head(ss).body) \o OuterNodesOfBranches(Head(ss).else_ifs)
                     \o (IF Head(ss).has_else THEN OuterNodes(Head(ss).else_body)
                         ELSE <<>>)
               [] "body" \in DOMAIN Head(ss) -> OuterNodes(Head(ss).body)
               [] OTHER -> <<>>)
         \o OuterNodes(Tail(ss))

\* C29: what count_instructions returns is the number of statement nodes
\* that are not inside a function body: for the statements of every
\* program, and for three programs counted by hand (P_loops: fn 1, for 1 +
\* repeat 1 + if 1 + if 1 + break 1 + print 1 + if 1 + continue 1 + print
\* 1, let 1, while 1 + 4, while 1 + 1, print 1 = 19).
C29_CountInstructions ==
    pc = "counted" =>
       /\ instructions = Len(OuterNodes(stmts))
       /\ source = P_loops => instructions = 19
       /\ source = P_return => instructions = 7
       /\ source = P_while_true => instructions = 1

\* a program with a function body, nested loops and ifs has been counted
C29_Witness ==
    /\ pc = "counted"
    /\ source = P_loops
    /\ instructions = 19

\* tokens after which lexer::lex turns a line break into a semicolon
EndsStatement(k) ==
    k \in {"Ident", "Number", "Str", "StringInterp", "True", "False", "None",
           "Break", "Continue", "Return", "RParen", "RBracket", "RBrace"}

\* the last token lexer::lex gives for the text before position at
LastBefore(chars, at) ==
    Once(lex_chars(SubSeq(chars, 1, at - 1)).tokens,
         LAMBDA toks : IF Len(toks) < 2 THEN Token("Eof", <<>>) ELSE toks[Len(toks) - 1])

\* the first token lex_all gives for the text from position at on
FirstFrom(chars, at) ==
    Once(RawTokens(SubSeq(chars, at, Len(chars))),
         LAMBDA toks : IF toks = <<>> THEN Token("Eof", <<>>) ELSE toks[1])

\* item stands at position at of chars where it separates no statement
\* that was one before: it is a blank or a tab, or it ends in a line break
\* and follows a token that cannot end a statement (or no token), or
\* stands directly before a line break, a semicolon or the end of the text
LayoutOnly(chars, at, item) ==
    \/ item \in {<<" ">>, <<"\t">>}
    \/ ~EndsStatement(LastBefore(chars, at).k)
    \/ FirstFrom(chars, at + Len(item)).k \in {"Newline", "Semicolon", "Eof"}

\* the change recorded in previous kept the statements apart as they were
LayoutOnlyEdit ==
    /\ previous.ran
    /\ IF previous.kind = "add"
       THEN LayoutOnly(source, previous.at, previous.item)
       ELSE LayoutOnly(previous.text, previous.at, previous.item)

NestedTooDeeply == error("Code is nested too deeply")

\* the Parser is about to enter a block body, a unary-operator level or a
\* parenthesised expression
EntersNesting(p) ==
    /\ p.ctl.c = "call"
    /\ \/ p.ctl.f \in {"parse_block", "parse_unary"}
       \/ p.ctl.f = "parse_primary" /\ peek(p) = "LParen"

\* C31: the depth counter of the parser never passes MAX_PARSE_DEPTH while
\* parsing goes on and is 0 after a successful parse; entering a block
\* body, a parenthesised expression or a unary-operator level raises it by
\* one, and the parse fails with "Code is nested too deeply" exactly when
\* such a level is entered with the counter at MAX_PARSE_DEPTH.  So n minus
\* signs parse iff n + 1 <= 128, n pairs of parentheses iff 2n + 1 <= 128
\* (each operand is a unary level), n nested blocks iff n <= 128.
C31_DepthBounded ==
    /\ [](pc \in {"parsing", "parsed", "done"} =>
            /\ parser.depth <= MAX_PARSE_DEPTH + 1
            /\ parser.depth > MAX_PARSE_DEPTH =>
                  (parser.ctl.c = "fail" /\ parser.ctl.e = NestedTooDeeply)
            /\ pc = "parsed" => (parser.depth = 0 /\ parser.ctl.c = "ret")
            /\ pc = "done" => result = Err(parser.ctl.e))
    /\ [][(pc = "parsing" /\ EntersNesting(parser)) =>
            /\ parser'.depth = parser.depth + 1
            /\ parser.depth >= MAX_PARSE_DEPTH =>
                  (parser'.ctl.c = "fail" /\ parser'.ctl.e = NestedTooDeeply)]_vars
    /\ [][(pc = "parsing" /\ parser.ctl.c # "fail" /\ parser'.ctl.c = "fail"
           /\ parser'.ctl.e = NestedTooDeeply) =>
            (EntersNesting(parser) /\ parser.depth = MAX_PARSE_DEPTH)]_vars
    /\ [][(pc = "parsing" /\ ~EntersNesting(parser)) => parser'.depth <= parser.depth]_vars
    /\ [](pc \in {"parsed", "done"} =>
            \A n \in 0..(MAX_PARSE_DEPTH + NestMargin) :
               /\ tokens = NestUnary(n) => ((pc = "parsed") = (n + 1 <= MAX_PARSE_DEPTH))
               /\ tokens = NestParens(n) => ((pc = "parsed") = (2 * n + 1 <= MAX_PARSE_DEPTH))
               /\ tokens = NestBlocks(n) => ((pc = "parsed") = (n <= MAX_PARSE_DEPTH))
               /\ tokens = NestBody(n) => ((pc = "parsed") = (n + 2 <= MAX_PARSE_DEPTH))
               /\ tokens = NestMixed(n) => ((pc = "parsed") = (3 * n + 2 <= MAX_PARSE_DEPTH)))

\* 128 minus signs before a number: the 129th unary level is refused
C31_Witness ==
    /\ pc = "done"
    /\ tokens = NestUnary(MAX_PARSE_DEPTH)
    /\ parser.depth = MAX_PARSE_DEPTH + 1
    /\ result = Err(NestedTooDeeply)

\* ----------------------------------------------------------------------
\* C32: lexing replaces a line break by one semicolon exactly when the
\* token immediately before it in the output is an identifier, a number,
\* a string literal, true, false, none, break, continue, return, `)`, `]`
\* or `}`; every other line break is dropped.  A run of line breaks gives
\* at most one semicolon, a leading line break gives none, and no Newline
\* token is left in the output.
\* ----------------------------------------------------------------------

\* the raw tokens of the text, before the line breaks are dealt with
RawOf(text) == lex_all(text).tokens

\* the raw tokens that are still there after the line breaks are dealt with
KeptOf(raw) ==
    {i \in 1..Len(raw) :
        raw[i].k # "Newline" \/ (i > 1 /\ EndsStatement(raw[i - 1].k))}

\* how many of the first i raw tokens are kept
KeptUpTo(raw, i) == Cardinality({j \in KeptOf(raw) : j <= i})

C32_Semicolons ==
    (pc = "lexed") =>
        LET raw == RawOf(source)
            kept == KeptOf(raw)
        IN /\ Len(tokens) = Cardinality(kept)
           /\ \A i \in kept :
                 tokens[KeptUpTo(raw, i)] =
                    IF raw[i].k = "Newline" THEN Token("Semicolon", <<>>) ELSE raw[i]
           /\ \A i \in 1..Len(raw) :
                 raw[i].k = "Newline" =>
                    (i \in kept <=>
                        /\ KeptUpTo(raw, i - 1) > 0
                        /\ EndsStatement(tokens[KeptUpTo(raw, i - 1)].k))
           /\ \A i \in 1..Len(raw) : \A j \in (i + 1)..Len(raw) :
                 (\A n \in i..j : raw[n].k = "Newline") => ~(i \in kept /\ j \in kept)
           /\ \A i \in 1..Len(raw) :
                 (\A n \in 1..i : raw[n].k = "Newline") => i \notin kept
           /\ \A n \in 1..Len(tokens) : tokens[n].k # "Newline"

\* `}` and then two line breaks and `y`: one semicolon between them
C32_Witness ==
    /\ pc = "lexed"
    /\ source = <<"}", "\n", "\n", "y">>
    /\ tokens = <<Token("RBrace", <<>>), Token("Semicolon", <<>>),
                  Token("Ident", <<"y">>), Token("Eof", <<>>)>>

\* ----------------------------------------------------------------------
\* C33: cloning a value v adds to the ledger exactly the number of bytes
\* currently accounted for v (its own buffer plus all nested elements), so
\* two independently owned equal values together cost twice one value, and
\* dropping the clone returns the ledger to its previous count.
\* ----------------------------------------------------------------------

\* the bytes of the contents of v: every buffer counted by its length
RECURSIVE ExactBytes(_)
ExactBytes(v) ==
    CASE v.t = "string" -> Len(v.s)
      [] v.t = "array" ->
            Len(v.items) * SizeOfValue
            + SumSeq([i \in 1..Len(v.items) |-> ExactBytes(v.items[i])])
      [] v.t = "dict" ->
            Len(v.entries) * SizeOfEntry
            + SumSeq([i \in 1..Len(v.entries) |->
                          Len(v.entries[i].k) + ExactBytes(v.entries[i].v)])
      [] OTHER -> 0

\* every buffer of v is exactly as large as its contents
RECURSIVE IsFull(_)
IsFull(v) ==
    CASE v.t = "string" -> v.cap = Len(v.s)
      [] v.t = "array" ->
            v.cap = Len(v.items) /\ \A i \in 1..Len(v.items) : IsFull(v.items[i])
      [] v.t = "dict" ->
            /\ v.cap = Len(v.entries)
            /\ \A i \in 1..Len(v.entries) :
                  v.entries[i].kcap = Len(v.entries[i].k) /\ IsFull(v.entries[i].v)
      [] OTHER -> TRUE

\* a and b have the same contents, whatever their capacities
RECURSIVE SameContents(_, _)
SameContents(a, b) ==
    /\ a.t = b.t
    /\ CASE a.t = "string" -> a.s = b.s
         [] a.t = "array" ->
               /\ Len(a.items) = Len(b.items)
               /\ \A i \in 1..Len(a.items) : SameContents(a.items[i], b.items[i])
         [] a.t = "dict" ->
               /\ Len(a.entries) = Len(b.entries)
               /\ \A i \in 1..Len(a.entries) :
                     /\ a.entries[i].k = b.entries[i].k
                     /\ SameContents(a.entries[i].v, b.entries[i].v)
         [] OTHER -> a = b

\* the evaluator is about to read a variable that exists: it clones its value
ClonesVariable ==
    /\ pc = "running"
    /\ ctl.c = "eval"
    /\ ctl.e.kind = "Ident"
    /\ get_var(M, ctl.e.name) # 0
    /\ USED + DropBytes(VarValue(M, ctl.e.name)) < UsizeMax

\* the value of an expression statement is about to be dropped
DropsValue ==
    /\ pc = "running"
    /\ ctl.c = "val"
    /\ kont # <<>>
    /\ kont[Len(kont)].k = "ExprStmtK"

\* the statement as it stands: the clone adds what v accounts for
C33_CloneAddsAccounted ==
    [][ClonesVariable =>
          USED' = USED + DropBytes(VarValue(M, ctl.e.name))]_vars

\* the clone adds the bytes of the contents of v, which is what v accounts
\* for exactly when every buffer of v is full; the clone and v are equal,
\* v stays as it is, and dropping a value deducts what it accounts for
C33_CloneAddsContents ==
    /\ [][ClonesVariable =>
            LET v == VarValue(M, ctl.e.name)
            IN /\ USED' = USED + ExactBytes(v)
               /\ ExactBytes(v) <= DropBytes(v)
               /\ (ExactBytes(v) = DropBytes(v)) <=> IsFull(v)
               /\ ctl'.c = "val"
               /\ SameContents(ctl'.v, v)
               /\ IsFull(ctl'.v)
               /\ DropBytes(ctl'.v) = ExactBytes(v)
               /\ scopes' = scopes]_vars
    /\ [][DropsValue => USED' = SatSub(USED, DropBytes(ctl.v))]_vars

\* a and its clone b are both held: a accounts for a buffer of four
\* elements, b for a buffer of one
C33_Witness ==
    /\ pc = "running"
    /\ source = P_clone
    /\ get_var(M, "a") # 0
    /\ get_var(M, "b") # 0
    /\ SameContents(VarValue(M, "a"), VarValue(M, "b"))
    /\ DropBytes(VarValue(M, "a")) = 4 * SizeOfValue + 2
    /\ DropBytes(VarValue(M, "b")) = SizeOfValue + 2
    /\ ~IsFull(VarValue(M, "a"))
    /\ IsFull(VarValue(M, "b"))

\* ----------------------------------------------------------------------
\* C34: every arithmetic step of the memory accounting saturates instead of
\* wrapping: under any sequence of init, alloc and dealloc the counter stays
\* between 0 and the largest representable value, the queries exceeded and
\* would_exceed leave counter and limit unchanged, and the byte sizes
\* computed for constructors and pre-flight checks do not wrap either.
\* ----------------------------------------------------------------------

\* x brought into the range of the counter
Clamped(x) == IF x < 0 THEN 0 ELSE IF x > UsizeMax THEN UsizeMax ELSE x

\* a * b > c, for a and b that are not negative
ProductExceeds(a, b, c) == a > 0 /\ b > c \div a

\* the ledger operation that leads to the next state
Did(op) == pc = "ledger" /\ hist'.op = op

C34_Saturates ==
    /\ [](pc = "ledger" => USED \in 0..UsizeMax /\ LIMIT \in 0..UsizeMax)
    /\ [][Did("init") => USED' = 0 /\ LIMIT' = hist'.args[1]]_vars
    /\ [][Did("alloc") => USED' = Clamped(USED + hist'.args[1]) /\ LIMIT' = LIMIT]_vars
    /\ [][Did("dealloc") => USED' = Clamped(USED - hist'.args[1]) /\ LIMIT' = LIMIT]_vars
    /\ [][Did("exceeded") =>
            /\ USED' = USED /\ LIMIT' = LIMIT
            /\ hist'.answer = (USED > LIMIT)]_vars
    /\ [][Did("would_exceed") =>
            /\ USED' = USED /\ LIMIT' = LIMIT
            /\ hist'.answer = (Clamped(USED + hist'.args[1]) > LIMIT)]_vars
    /\ [][Did("string_repeat") =>
            /\ USED' = USED /\ LIMIT' = LIMIT
            /\ hist'.size = IF ProductExceeds(hist'.args[1], hist'.args[2], UsizeMax)
                            THEN UsizeMax ELSE hist'.args[1] * hist'.args[2]
            /\ hist'.answer = (Clamped(USED + hist'.size) > LIMIT)]_vars
    /\ [][Did("string_concat") =>
            /\ USED' = USED /\ LIMIT' = LIMIT
            /\ hist'.size = hist'.args[1] + hist'.args[2]
            /\ hist'.answer = (Clamped(USED + hist'.args[1] + hist'.args[2]) > LIMIT)]_vars
    /\ [][Did("array_concat") =>
            /\ USED' = USED /\ LIMIT' = LIMIT
            /\ hist'.size = (hist'.args[1] + hist'.args[2]) * SizeOfValue
            /\ hist'.answer =
                  (Clamped(USED + (hist'.args[1] + hist'.args[2]) * SizeOfValue) > LIMIT)]_vars
    /\ [][Did("new_array") =>
            /\ hist'.size = hist'.args[1] * SizeOfValue
            /\ USED' = Clamped(USED + hist'.args[1] * SizeOfValue)
            /\ LIMIT' = LIMIT]_vars
    /\ [][Did("new_dict") =>
            /\ hist'.size = hist'.args[1] * SizeOfEntry + SumSeq(Tail(hist'.args))
            /\ USED' = Clamped(USED + hist'.size)
            /\ LIMIT' = LIMIT]_vars

\* the counter stands at the largest value after an alloc that would have
\* passed it
C34_Witness ==
    /\ pc = "ledger"
    /\ hist.op = "alloc"
    /\ hist.args = <<UsizeMax>>
    /\ USED = UsizeMax
    /\ steps = 2

\* ----------------------------------------------------------------------
\* C35: for an array of length L and an integer index i, indexed read and
\* indexed write succeed exactly when -L <= i < L, addressing element i for
\* i >= 0 and element L + i for i < 0; every other index, including
\* negative indices of arbitrarily large magnitude, yields an out-of-bounds
\* error and never wraps around to a valid slot.
\* ----------------------------------------------------------------------

OutOfBounds == error("Index {} is out of bounds (array has {} items)")

\* the position (from 1) of the element the index i stands for
SlotOf(L, i) == IF i < 0 THEN L + i + 1 ELSE i + 1

C35_IndexInBounds ==
    /\ [][(pc = "index" /\ hist'.op = "read" /\ hist'.idx.h = 0) =>
            LET items == scopes[1].a.items
                L == Len(items)
                i == hist'.idx.n
            IN /\ hist'.r.ok <=> (0 - L <= i /\ i < L)
               /\ hist'.r.ok => SameContents(hist'.r.v, items[SlotOf(L, i)])
               /\ ~hist'.r.ok => hist'.r.e = OutOfBounds
               /\ scopes' = scopes]_vars
    /\ [][(pc = "index" /\ hist'.op = "write" /\ hist'.idx.h = 0) =>
            LET items == scopes[1].a.items
                L == Len(items)
                i == hist'.idx.n
            IN /\ hist'.r.ok <=> (0 - L <= i /\ i < L)
               /\ hist'.r.ok =>
                     scopes'[1].a.items = [items EXCEPT ![SlotOf(L, i)] = hist'.val]
               /\ ~hist'.r.ok => hist'.r.e = OutOfBounds /\ scopes' = scopes]_vars

\* a[-3] = "v" on [10, 11, 12] has written the first element
C35_Witness ==
    /\ pc = "index"
    /\ hist.op = "write"
    /\ hist.idx = NumV(0 - 3)
    /\ hist.obj = IndexArray(3)
    /\ hist.r.ok
    /\ scopes[1].a.items = <<new_str(<<"v">>, 1), NumV(11), NumV(12)>>

\* ----------------------------------------------------------------------
\* C36: on an array of length L, insert(i, v) fails with an out-of-bounds
\* error for every index i outside 0..L inclusive and remove(i) fails for
\* every index i outside 0..L-1, negative indices included; when the call
\* fails the receiver variable is unchanged.
\* ----------------------------------------------------------------------

C36_InsertRemoveBounds ==
    /\ [][(pc = "index" /\ hist'.op = "insert" /\ hist'.idx.h = 0) =>
            LET L == Len(scopes[1].a.items)
                i == hist'.idx.n
            IN /\ (i < 0 \/ i > L) =>
                     /\ hist'.r = MethErr(error("Insert index {} is out of bounds"))
                     /\ scopes' = scopes]_vars
    /\ [][(pc = "index" /\ hist'.op = "remove" /\ hist'.idx.h = 0) =>
            LET L == Len(scopes[1].a.items)
                i == hist'.idx.n
            IN /\ (i < 0 \/ i > L - 1) =>
                     /\ hist'.r = MethErr(error("Remove index {} is out of bounds"))
                     /\ scopes' = scopes]_vars

\* ----------------------------------------------------------------------
\* C37: any assignment statement, plain `=` or compound (`+=`, `-=`, `*=`,
\* `/=`, `%=`), whose target variable is not declared in a visible scope
\* fails with a "doesn't exist yet" error that carries a hint suggesting
\* `let`, and it creates no variable.
\* ----------------------------------------------------------------------

\* the value of an assignment to a variable has been evaluated and the
\* variable is in no visible scope
AssignsUndeclared ==
    /\ pc = "running"
    /\ ctl.c = "val"
    /\ kont # <<>>
    /\ kont[Len(kont)].k = "AssignK"
    /\ kont[Len(kont)].d.target.kind = "Variable"
    /\ get_var(M, kont[Len(kont)].d.target.name) = 0

C37_UndeclaredHint ==
    [][AssignsUndeclared =>
          /\ ctl'.c = "err"
          /\ ctl'.e.msg = "Variable {} doesnt exist yet"
          /\ ctl'.e.hint = "Use let to create a new variable: let {} = ..."
          /\ scopes' = scopes]_vars

\* ----------------------------------------------------------------------
\* C38: user functions live in one flat table keyed by name: a function
\* becomes callable only once its `fn` statement has executed (a call that
\* runs earlier fails with "not found"), a later declaration with the same
\* name replaces the earlier one, and a declaration executed inside a block
\* or inside another function body stays callable after that block or call
\* has ended.
\* ----------------------------------------------------------------------

\* the table with the definition of the statement under its name, and every
\* other name as it was
Declared(table, stmt) ==
    /\ DOMAIN functions' = (DOMAIN table) \cup {stmt.name}
    /\ functions'[stmt.name] = [params |-> stmt.params, body |-> stmt.body]
    /\ \A x \in (DOMAIN table) \ {stmt.name} : functions'[x] = table[x]

\* the name called is neither a builtin nor a function of the host
CallsUser ==
    /\ pc = "running"
    /\ ctl.c = "call"
    /\ ctl.name \notin BuiltinNames
    /\ ~HostCall(cfg, ctl.name, ctl.args).handled

C38_FlatTable ==
    /\ [][(pc = "running" /\ pc' = "running" /\ functions' # functions) =>
            /\ ctl.c = "exec_stmt"
            /\ ctl.stmt.kind = "FnDecl"]_vars
    /\ [][(pc = "running" /\ ctl.c = "exec_stmt" /\ ctl.stmt.kind = "FnDecl"
             /\ ctl'.c # "err") =>
            Declared(functions, ctl.stmt)]_vars
    /\ [][(CallsUser /\ ctl.name \notin DOMAIN functions) =>
            /\ ctl'.c = "err"
            /\ ctl'.e.msg = "Function {} not found"]_vars
    /\ [][(CallsUser /\ ctl.name \in DOMAIN functions /\ ctl'.c # "err") =>
            /\ ctl' = CtlBlock(functions[ctl.name].body, 1)
            /\ functions' = functions]_vars
    /\ []((pc = "done" /\ source = P_fn_table /\ cfg.kind = "TestHost" /\ cfg.tick_fail = 0
            /\ limits = [max_steps |-> MaxStepsLarge, max_memory |-> MemLarge]) =>
            /\ host.prints = <<<<"1">>, <<"2">>, <<"3">>, <<"4">>>>
            /\ ~result.ok
            /\ result.e.msg = "Function {} not found")

\* the run of the program has ended at the call of z, after the calls of f
\* (twice declared), g (declared in a block) and h (declared in a call)
C38_Witness ==
    /\ pc = "done"
    /\ source = P_fn_table
    /\ cfg = [kind |-> "TestHost", tick_fail |-> 0]
    /\ limits = [max_steps |-> MaxStepsLarge, max_memory |-> MemLarge]
    /\ host.prints = <<<<"1">>, <<"2">>, <<"3">>, <<"4">>>>
    /\ result.e.msg = "Function {} not found"
    /\ DOMAIN functions = {"f", "g", "mk", "h"}
    /\ functions["f"].body = <<SReturn(TRUE, ENumber(2))>>

\* ----------------------------------------------------------------------
\* C39: a `return` executed at the top level of a program (outside any
\* function, possibly inside loops or ifs) stops the program at once and
\* run reports success: the remaining statements are not executed and the
\* returned value is discarded.
\* ----------------------------------------------------------------------

\* a Return signal is on its way out and no function call is open
TopLevelReturn ==
    /\ pc = "running"
    /\ ctl.c = "sig"
    /\ ctl.s = "Return"
    /\ call_depth = 0

C39_TopLevelReturn ==
    /\ [][TopLevelReturn =>
            /\ host'.prints = host.prints
            /\ host'.calls = host.calls
            /\ hist'.stmt_execs = hist.stmt_execs
            /\ steps' = steps
            /\ functions' = functions
            /\ IF kont = <<>>
               THEN /\ pc' = "done"
                    /\ result' = Ok
                    /\ USED' = SatSub(SatSub(USED, DropBytes(ctl.v)), ScopesBytes(scopes))
               ELSE /\ pc' = "running"
                    /\ ctl' = ctl
                    /\ kont' = SubSeq(kont, 1, Len(kont) - 1)]_vars
    /\ []((pc = "done" /\ source = P_top_return_nested /\ cfg.tick_fail = 0
            /\ limits = [max_steps |-> MaxStepsLarge, max_memory |-> MemLarge]) =>
            /\ result = Ok
            /\ host.prints = <<<<"a">>, <<"1">>>>)

\* the run has ended with success after the return inside if, for, repeat
\* and while: "n" was not printed
C39_Witness ==
    /\ pc = "done"
    /\ source = P_top_return_nested
    /\ cfg.tick_fail = 0
    /\ limits = [max_steps |-> MaxStepsLarge, max_memory |-> MemLarge]
    /\ result = Ok
    /\ host.prints = <<<<"a">>, <<"1">>>>
    /\ hist.stmt_execs = 8

====
